---- MODULE Spec2Model ----
(***************************************************************************)
(* Normalization & metrics engine of the Monday.com BI agent.              *)
(*                                                                         *)
(* Strings are sequences of one-character strings (Chars("abc") is         *)
(* <<"a","b","c">>); the three non-ASCII currency symbols are the          *)
(* one-element "characters" "<rupee>", "<euro>" and "<pound>".             *)
(* JavaScript values are records [k, s, n]: k is the type tag, s the       *)
(* string payload (for a non-string: what String(v) yields), n a number.   *)
(* Numbers are decimal fractions [m, e] meaning m / 10^e, normalised.      *)
(***************************************************************************)
EXTENDS Integers, Sequences, FiniteSets, TLC

VARIABLES
    \* ---- a call of one of the pure helpers (normalizer.js, findCol) ----
    fn,             \* the function called
    raw,            \* its argument(s)
    result,         \* what it returned (NotCalled before the call)
    prev,           \* the result of the previous call of a chain
    pc,             \* "call", "returned", "again"
    \* ---- computeDealsMetrics(rows) ----
    dealRows,       \* rows: the rows the loop has taken so far
    tzWest,         \* the process runs west of UTC (local date of a UTC midnight)
    dm,             \* the locals: count, totalPipeline, closedWon, closedLost and
                    \* the distributions
    dmPc,           \* "idle", "loop", "done"
    dealsMetrics,   \* the record returned
    \* ---- normalizeBoard(board) ----
    board,          \* the argument: name, columns, and the items taken so far
    cellIdx,        \* how many column_values of the current item are done
    nb,             \* the locals: row, rows, missingCounts, currencyTypes, warnings
    nbPc,           \* "idle", "items", "cells", "done"
    normalized,     \* the record returned
    \* ---- computeWorkOrdersMetrics(rows) ----
    woRows,         \* rows: the rows the loop has taken so far
    woNow,          \* now = new Date(), in days since the epoch
    wm,             \* the locals: the counters, the sums and the distributions
    woPc,           \* "idle", "loop", "done"
    woMetrics,      \* the record returned
    \* ---- crossBoardAnalysis(dealsRows, woRows, dealsMetrics, woMetrics) ----
    cbDeals,        \* dealsRows
    cbWos,          \* woRows
    cb,             \* the locals linkedWOs and sectorLinkedWOs
    cbPc,           \* "idle", "call", "done"
    crossBoard,     \* the record returned, or what was thrown
    \* ---- computeConfidence(results) ----
    cfQualities,    \* results.dataQuality: deals and workOrders, each a report or undefined
    cfPc,           \* "idle", "call", "done"
    confidence,     \* the number returned
    \* ---- executePlan(plan), with fetchBoard and mondayRequest ----
    plan,           \* the argument: data_sources and filters
    env,            \* process.env: the two board ids and the API token, if set
    exPc,           \* "idle", "start", "deals", "fetchDeals", "gotDeals", "wo",
                    \* "fetchWo", "gotWo", "finish", "done", "error", "thrown"
    req,            \* mondayRequest in flight: attempt, lastError, the waits so far
    fetched,        \* what the last fetchBoard resolved to: { error, board }
    ex,             \* the locals: results, dealsNorm, woNorm, and the ids fetched
    outcome,        \* what executePlan resolved to, or the error it rejected with
    \* ---- fetchBoard(boardId), a call of its own ----
    fbId,           \* boardId
    fbReq,          \* mondayRequest in flight: attempt, lastError, the waits so far
    fbSeen,         \* what each fetch() of the call came to, in order
    fbPc,           \* "idle", "attempt", "replied", "returned"
    fbReply,        \* what mondayRequest resolved to: { error, data }
    fbResult,       \* what fetchBoard resolved to: { error, board }
    \* ---- router.post("/chat") ----
    sessions,       \* the Map sessions: sessionId -> { history }
    handlers        \* the requests: each handler's position and its locals

callVars == <<fn, raw, result, prev, pc>>
dealsVars == <<dealRows, tzWest, dm, dmPc, dealsMetrics>>
boardVars == <<board, cellIdx, nb, nbPc, normalized>>
woVars == <<woRows, woNow, wm, woPc, woMetrics>>
crossVars == <<cbDeals, cbWos, cb, cbPc, crossBoard>>
confVars == <<cfQualities, cfPc, confidence>>
execVars == <<plan, env, exPc, req, fetched, ex, outcome>>
fetchVars == <<fbId, fbReq, fbSeen, fbPc, fbReply, fbResult>>
chatVars == <<sessions, handlers>>
vars == <<callVars, dealsVars, boardVars, woVars, crossVars, confVars, execVars,
         fetchVars, chatVars>>
\* what each of them leaves alone
nonCallVars ==
    <<dealsVars, boardVars, woVars, crossVars, confVars, execVars, fetchVars, chatVars>>
nonDealsVars ==
    <<callVars, boardVars, woVars, crossVars, confVars, execVars, fetchVars, chatVars>>
nonBoardVars ==
    <<callVars, dealsVars, woVars, crossVars, confVars, execVars, fetchVars, chatVars>>
nonWoVars ==
    <<callVars, dealsVars, boardVars, crossVars, confVars, execVars, fetchVars, chatVars>>
nonCrossVars ==
    <<callVars, dealsVars, boardVars, woVars, confVars, execVars, fetchVars, chatVars>>
nonConfVars ==
    <<callVars, dealsVars, boardVars, woVars, crossVars, execVars, fetchVars, chatVars>>
nonExecVars ==
    <<callVars, dealsVars, boardVars, woVars, crossVars, confVars, fetchVars, chatVars>>
nonFetchVars ==
    <<callVars, dealsVars, boardVars, woVars, crossVars, confVars, execVars, chatVars>>
nonChatVars ==
    <<callVars, dealsVars, boardVars, woVars, crossVars, confVars, execVars, fetchVars>>

\* --------------------------------------------------------------------------
\* Strings
\* --------------------------------------------------------------------------
Chars(str) == [i \in 1..Len(str) |-> SubSeq(str, i, i)]

UpperChars == Chars("ABCDEFGHIJKLMNOPQRSTUVWXYZ")
LowerChars == Chars("abcdefghijklmnopqrstuvwxyz")
Digits == Chars("0123456789")

DigitSet == {Digits[i] : i \in 1..10}
DigitValue == [c \in DigitSet |-> (CHOOSE i \in 1..10 : Digits[i] = c) - 1]
IsDigit(c) == c \in DigitSet
DigitVal(c) == DigitValue[c]
IsSpace(c) == c \in {" ", "\t", "\n"}

UpperSet == {UpperChars[i] : i \in 1..26}
LowerSet == {LowerChars[i] : i \in 1..26}
LowerOf == [c \in UpperSet |-> LowerChars[CHOOSE i \in 1..26 : UpperChars[i] = c]]
UpperOf == [c \in LowerSet |-> UpperChars[CHOOSE i \in 1..26 : LowerChars[i] = c]]
IsWordChar(c) == c \in UpperSet \cup LowerSet \cup DigitSet \cup {"_"}
toLowerChar(c) == IF c \in UpperSet THEN LowerOf[c] ELSE c
toUpperChar(c) == IF c \in LowerSet THEN UpperOf[c] ELSE c

toLowerCase(s) == [i \in 1..Len(s) |-> toLowerChar(s[i])]
toUpperCase(s) == [i \in 1..Len(s) |-> toUpperChar(s[i])]

RECURSIVE trimStart(_)
trimStart(s) == IF s # <<>> /\ IsSpace(Head(s)) THEN trimStart(Tail(s)) ELSE s
RECURSIVE trimEnd(_)
trimEnd(s) ==
    IF s # <<>> /\ IsSpace(s[Len(s)]) THEN trimEnd(SubSeq(s, 1, Len(s) - 1)) ELSE s
trim(s) == trimEnd(trimStart(s))

\* s.includes(t)
includes(s, t) ==
    \E i \in 1..(Len(s) - Len(t) + 1) : SubSeq(s, i, i + Len(t) - 1) = t
\* s.replace(/[...]/g, ""): drop the characters of a class, or all but a class
removeChars(s, class) == SelectSeq(s, LAMBDA c : c \notin class)
keepChars(s, class) == SelectSeq(s, LAMBDA c : c \in class)
\* s.replace(/\s+/g, " ")
RECURSIVE collapseSpaces(_)
collapseSpaces(s) ==
    IF s = <<>> THEN <<>>
    ELSE IF IsSpace(Head(s))
         THEN <<" ">> \o collapseSpaces(trimStart(s))
         ELSE <<Head(s)>> \o collapseSpaces(Tail(s))

\* --------------------------------------------------------------------------
\* JavaScript values
\* --------------------------------------------------------------------------
Zero == [m |-> 0, e |-> 0]
JsNull == [k |-> "null", s |-> Chars("null"), n |-> Zero]
JsUndefined == [k |-> "undefined", s |-> Chars("undefined"), n |-> Zero]
JsStr(s) == [k |-> "string", s |-> s, n |-> Zero]
\* the two members every plain object inherits under an all-lowercase name
ObjectConstructor ==
    [k |-> "function", s |-> Chars("function Object() { [native code] }"), n |-> Zero]
ObjectPrototype == [k |-> "object", s |-> Chars("[object Object]"), n |-> Zero]
NotCalled == [k |-> "notcalled", s |-> <<>>, n |-> Zero]

\* String(v)
String(v) == v.s
\* !!v
Truthy(v) ==
    CASE v.k \in {"null", "undefined"} -> FALSE
      [] v.k = "string" -> v.s # <<>>
      [] v.k = "number" -> v.n.m # 0
      [] OTHER -> TRUE
\* a || b
OrElse(a, b) == IF Truthy(a) THEN a ELSE b
\* !raw || String(raw).trim() === ""
IsBlankRaw(v) == ~Truthy(v) \/ trim(String(v)) = <<>>

\* --------------------------------------------------------------------------
\* Text normalization: canonicalizeSector, normalizeText
\* --------------------------------------------------------------------------
SECTOR_MAP ==
    LET e(k, v) == <<Chars(k), Chars(v)>> IN
    << e("oil & gas", "Oil & Gas"), e("oil and gas", "Oil & Gas"), e("o&g", "Oil & Gas"),
       e("mining", "Mining"), e("mines", "Mining"),
       e("infra", "Infrastructure"), e("infrastructure", "Infrastructure"),
       e("real estate", "Real Estate"), e("realestate", "Real Estate"),
       e("construction", "Construction"),
       e("agriculture", "Agriculture"), e("agri", "Agriculture"),
       e("solar", "Solar Energy"), e("solar energy", "Solar Energy"),
       e("renewables", "Renewable Energy"), e("renewable energy", "Renewable Energy"),
       e("telecom", "Telecom"), e("telecommunications", "Telecom"),
       e("govt", "Government"), e("government", "Government"),
       e("public sector", "Government"),
       e("defence", "Defence"), e("defense", "Defence"),
       e("urban dev", "Urban Development"), e("urban development", "Urban Development"),
       e("survey", "Survey"), e("surveying", "Survey") >>

SectorKeys == {SECTOR_MAP[i][1] : i \in DOMAIN SECTOR_MAP}
SectorCanon == {SECTOR_MAP[i][2] : i \in DOMAIN SECTOR_MAP}

\* SECTOR_MAP[key]: an own property, else what the object literal inherits
sectorLookup(key) ==
    IF key \in SectorKeys
    THEN JsStr(SECTOR_MAP[CHOOSE i \in DOMAIN SECTOR_MAP : SECTOR_MAP[i][1] = key][2])
    ELSE IF key = Chars("constructor") THEN ObjectConstructor
    ELSE IF key = Chars("__proto__") THEN ObjectPrototype
    ELSE JsUndefined

sectorKey(v) == toLowerCase(trim(String(v)))

canonicalizeSector(v) ==
    IF IsBlankRaw(v) THEN JsNull
    ELSE LET hit == sectorLookup(sectorKey(v))
         IN  IF Truthy(hit) THEN hit ELSE JsStr(trim(String(v)))

normalizeText(v) ==
    IF IsBlankRaw(v) THEN JsNull
    ELSE JsStr(collapseSpaces(trim(String(v))))

\* --------------------------------------------------------------------------
\* Numbers: decimal fractions m / 10^e with e >= 0, m not divisible by 10
\* unless e = 0
\* --------------------------------------------------------------------------
RECURSIVE Pow10(_)
Pow10(e) == IF e = 0 THEN 1 ELSE 10 * Pow10(e - 1)
RECURSIVE Dec(_, _)
Dec(m, e) == IF e > 0 /\ m % 10 = 0 THEN Dec(m \div 10, e - 1) ELSE [m |-> m, e |-> e]
DecInt(i) == [m |-> i, e |-> 0]
DecLess(a, b) == a.m * Pow10(b.e) < b.m * Pow10(a.e)
DecAdd(a, b) ==
    IF a.e >= b.e THEN Dec(a.m + b.m * Pow10(a.e - b.e), a.e)
    ELSE Dec(a.m * Pow10(b.e - a.e) + b.m, b.e)
\* Math.trunc for a number >= 0
DecTrunc(a) == a.m \div Pow10(a.e)
JsNum(n) == [k |-> "number", s |-> <<>>, n |-> n]
NaN == [k |-> "NaN", s |-> Chars("NaN"), n |-> Zero]

RECURSIVE DigitsToInt(_)
DigitsToInt(ds) ==
    IF ds = <<>> THEN 0 ELSE 10 * DigitsToInt(SubSeq(ds, 1, Len(ds) - 1)) + DigitVal(ds[Len(ds)])
RECURSIVE IntToDigits(_)
IntToDigits(i) ==
    IF i < 10 THEN <<Digits[i + 1]>> ELSE IntToDigits(i \div 10) \o <<Digits[(i % 10) + 1]>>
AllDigits(s) == \A i \in 1..Len(s) : IsDigit(s[i])
\* the longest prefix of s made of digits
RECURSIVE digitPrefix(_)
digitPrefix(s) ==
    IF s # <<>> /\ IsDigit(Head(s)) THEN <<Head(s)>> \o digitPrefix(Tail(s)) ELSE <<>>

\* Number(s) for the decimal literals digits[.digits] and .digits (no sign, no
\* exponent, no radix prefix); the empty string is 0; anything else is NaN
Number(s) ==
    LET t == trim(s)
        ip == digitPrefix(t)
        rest == SubSeq(t, Len(ip) + 1, Len(t))
        fp == IF rest # <<>> /\ Head(rest) = "." THEN Tail(rest) ELSE <<>>
    IN  IF t = <<>> THEN JsNum(Zero)
        ELSE IF rest = <<>> THEN JsNum(DecInt(DigitsToInt(ip)))
        ELSE IF Head(rest) = "." /\ AllDigits(fp) /\ (ip # <<>> \/ fp # <<>>)
             THEN JsNum(Dec(DigitsToInt(ip \o fp), Len(fp)))
        ELSE NaN

\* --------------------------------------------------------------------------
\* Date normalization
\* --------------------------------------------------------------------------
\* days since 0000-03-01 minus 400 years, proleptic Gregorian; d may run past
\* the end of the month (MakeDay carries it over)
DaysFromCivil(y, m, d) ==
    LET yy == IF m <= 2 THEN y + 399 ELSE y + 400
        era == yy \div 400
        yoe == yy % 400
        mp == (m + 9) % 12
        doy == (153 * mp + 2) \div 5 + d - 1
    IN  era * 146097 + yoe * 365 + yoe \div 4 - yoe \div 100 + doy
CivilFromDays(z) ==
    LET era == z \div 146097
        doe == z % 146097
        yoe == (doe - doe \div 1460 + doe \div 36524 - doe \div 146096) \div 365
        doy == doe - (365 * yoe + yoe \div 4 - yoe \div 100)
        mp == (5 * doy + 2) \div 153
        d == doy - (153 * mp + 2) \div 5 + 1
        m == IF mp < 10 THEN mp + 3 ELSE mp - 9
    IN  [y |-> yoe + era * 400 + (IF m <= 2 THEN 1 ELSE 0) - 400, m |-> m, d |-> d]

\* String(n).padStart(w, "0")
RECURSIVE padStart(_, _)
padStart(ds, w) == IF Len(ds) >= w THEN ds ELSE padStart(<<"0">> \o ds, w)
pad2(n) == padStart(IntToDigits(n), 2)

\* d.toISOString().slice(0, 10) for a date of the years 0..9999
isoDatePart(c) ==
    padStart(IntToDigits(c.y), 4) \o <<"-">> \o pad2(c.m) \o <<"-">> \o pad2(c.d)

\* /^\d{4}-\d{2}-\d{2}/
ISO_RE(s) ==
    /\ Len(s) >= 10
    /\ \A i \in {1, 2, 3, 4, 6, 7, 9, 10} : IsDigit(s[i])
    /\ s[5] = "-" /\ s[8] = "-"

\* /^(\d{1,2})[\/\-](\d{1,2})[\/\-](\d{4})$/ : the set of its matches <<m, d, y>>
\* (empty or one match)
MDY_RE(s) ==
    { <<SubSeq(s, 1, p - 1), SubSeq(s, p + 1, q - 1), SubSeq(s, q + 1, Len(s))>> :
        <<p, q>> \in { pq \in (2..3) \X (4..6) :
            /\ pq[2] - pq[1] \in 2..3
            /\ Len(s) = pq[2] + 4
            /\ s[pq[1]] \in {"/", "-"} /\ s[pq[2]] \in {"/", "-"}
            /\ AllDigits(SubSeq(s, 1, pq[1] - 1))
            /\ AllDigits(SubSeq(s, pq[1] + 1, pq[2] - 1))
            /\ AllDigits(SubSeq(s, pq[2] + 1, Len(s))) } }

isExcelSerial(s) ==
    LET n == Number(s)
    IN  n.k = "number" /\ DecLess(DecInt(30000), n.n) /\ DecLess(n.n, DecInt(60000))

formatYMD(y, m, d) ==
    IF m < 1 \/ m > 12 \/ d < 1 \/ d > 31 THEN JsNull
    ELSE JsStr(IntToDigits(y) \o <<"-">> \o pad2(m) \o <<"-">> \o pad2(d))

\* Date.UTC(1899, 11, 30 + serial), then toISOString().slice(0, 10)
excelSerialToDate(serial) ==
    JsStr(isoDatePart(CivilFromDays(DaysFromCivil(1899, 12, 30) + DecTrunc(serial))))

\* the time part "THH:mm" or "THH:mm:ss", followed by "Z"
isoTimeOk(t) ==
    /\ Len(t) \in {7, 10}
    /\ t[1] = "T" /\ t[4] = ":" /\ t[Len(t)] = "Z"
    /\ AllDigits(SubSeq(t, 2, 3)) /\ AllDigits(SubSeq(t, 5, 6))
    /\ DigitsToInt(SubSeq(t, 2, 3)) <= 23 /\ DigitsToInt(SubSeq(t, 5, 6)) <= 59
    /\ Len(t) = 10 => /\ t[7] = ":" /\ AllDigits(SubSeq(t, 8, 9))
                      /\ DigitsToInt(SubSeq(t, 8, 9)) <= 59

\* new Date(s) for s that begins YYYY-MM-DD: the UTC day it denotes, or NaN.
\* A day of 1..31 past the end of its month carries into the next month.
\* Modelled for the date-only form and the UTC date-time forms; the inputs drawn
\* have no other tail.
newDate(s) ==
    LET y == DigitsToInt(SubSeq(s, 1, 4))
        m == DigitsToInt(SubSeq(s, 6, 7))
        d == DigitsToInt(SubSeq(s, 9, 10))
        tail == SubSeq(s, 11, Len(s))
    IN  IF m \in 1..12 /\ d \in 1..31 /\ (tail = <<>> \/ isoTimeOk(tail))
        THEN JsNum(DecInt(DaysFromCivil(y, m, d)))
        ELSE NaN

normalizeDate(v) ==
    IF IsBlankRaw(v) THEN JsNull
    ELSE LET s == trim(String(v)) IN
         IF ISO_RE(s)
         THEN LET d == newDate(s)
              IN  IF d.k = "NaN" THEN JsNull
                  ELSE JsStr(isoDatePart(CivilFromDays(d.n.m)))
         ELSE IF isExcelSerial(s) THEN excelSerialToDate(Number(s).n)
         ELSE IF MDY_RE(s) # {}
              THEN LET g == CHOOSE g \in MDY_RE(s) : TRUE
                   IN  formatYMD(DigitsToInt(g[3]), DigitsToInt(g[1]), DigitsToInt(g[2]))
         ELSE JsNull

\* --------------------------------------------------------------------------
\* Currency normalization
\* --------------------------------------------------------------------------
CURRENCY_SYMBOLS ==
    << <<"$", Chars("USD")>>, <<"<rupee>", Chars("INR")>>,
       <<"<euro>", Chars("EUR")>>, <<"<pound>", Chars("GBP")>> >>
SymbolChars == {CURRENCY_SYMBOLS[i][1] : i \in DOMAIN CURRENCY_SYMBOLS}
symbolCurrency(c) ==
    CURRENCY_SYMBOLS[CHOOSE i \in DOMAIN CURRENCY_SYMBOLS : CURRENCY_SYMBOLS[i][1] = c][2]
CurrencyCodes == {Chars("USD"), Chars("INR"), Chars("EUR"), Chars("GBP")}

\* parseFloat(t): optional sign, then the longest prefix digits[.digits] or
\* .digits (no exponent: the callers pass digits, dots and minus signs only)
parseFloat(t) ==
    LET t0 == trimStart(t)
        neg == t0 # <<>> /\ Head(t0) = "-"
        t1 == IF t0 # <<>> /\ Head(t0) \in {"-", "+"} THEN Tail(t0) ELSE t0
        ip == digitPrefix(t1)
        r == SubSeq(t1, Len(ip) + 1, Len(t1))
        fp == IF r # <<>> /\ Head(r) = "." THEN digitPrefix(Tail(r)) ELSE <<>>
        mag == DigitsToInt(ip \o fp)
    IN  IF ip = <<>> /\ fp = <<>> THEN NaN
        ELSE JsNum(Dec(IF neg THEN 0 - mag ELSE mag, Len(fp)))

\* /^([<rupee>$<euro><pound>]?)\s*([\d,]+\.?\d*)\s*(USD|INR|EUR|GBP)?$/i :
\* the set of its matches [sym, num, code] (empty or one match); an absent
\* group is <<>>
CURRENCY_RE(s) ==
    LET sym == IF s # <<>> /\ Head(s) \in SymbolChars THEN <<Head(s)>> ELSE <<>>
        a == trimStart(SubSeq(s, Len(sym) + 1, Len(s)))
        \* [\d,]+ : digits and commas
        RECURSIVE dc(_)
        dc(x) == IF x # <<>> /\ (IsDigit(Head(x)) \/ Head(x) = ",")
                 THEN <<Head(x)>> \o dc(Tail(x)) ELSE <<>>
        ip == dc(a)
        b == SubSeq(a, Len(ip) + 1, Len(a))
        dot == IF b # <<>> /\ Head(b) = "." THEN <<".">> ELSE <<>>
        fp == digitPrefix(SubSeq(b, Len(dot) + 1, Len(b)))
        c == trimStart(SubSeq(b, Len(dot) + Len(fp) + 1, Len(b)))
    IN  IF ip # <<>> /\ (c = <<>> \/ toUpperCase(c) \in CurrencyCodes)
        THEN {[sym |-> sym, num |-> ip \o dot \o fp, code |-> c]}
        ELSE {}

NullMoney == [value |-> JsNull, currency |-> JsNull]

\* no match: the digits, dots and minus signs parsed, tagged UNKNOWN
unknownMoney(numOnly) ==
    [value |-> IF numOnly.k = "NaN" THEN JsNull ELSE numOnly,
     currency |-> JsStr(Chars("UNKNOWN"))]
\* a match, with a leading symbol taking precedence over a trailing code
matchedMoneySymbolFirst(match) ==
    [value |-> parseFloat(match.num),
     currency |-> JsStr(IF match.sym # <<>> THEN symbolCurrency(match.sym[1])
                        ELSE IF match.code # <<>> THEN toUpperCase(match.code)
                        ELSE Chars("INR"))]
\* a match: the code, else the symbol's currency, else INR
matchedMoney(match) ==
    LET symbol == IF match.sym # <<>> THEN symbolCurrency(match.sym[1]) ELSE <<>>
        code == IF match.code # <<>> THEN toUpperCase(match.code)
                ELSE IF symbol # <<>> THEN symbol
                ELSE Chars("INR")
    IN  [value |-> parseFloat(match.num), currency |-> JsStr(code)]
\* the cleaned string s and the matches ms of CURRENCY_RE on it
moneyOfSymbolFirst(s, ms) ==
    IF ms = {}
    THEN unknownMoney(parseFloat(keepChars(s, {"0", "1", "2", "3", "4", "5", "6",
                                              "7", "8", "9", ".", "-"})))
    ELSE matchedMoneySymbolFirst(CHOOSE g \in ms : TRUE)
moneyOf(s, ms) ==
    IF ms = {}
    THEN unknownMoney(parseFloat(keepChars(s, {"0", "1", "2", "3", "4", "5", "6",
                                              "7", "8", "9", ".", "-"})))
    ELSE matchedMoney(CHOOSE g \in ms : TRUE)
cleanedMoneySymbolFirst(s) == moneyOfSymbolFirst(s, CURRENCY_RE(s))
cleanedMoney(s) == moneyOf(s, CURRENCY_RE(s))

\* normalizeCurrency with a leading symbol taking precedence over a trailing code
normalizeCurrencySymbolFirst(v) ==
    IF IsBlankRaw(v) THEN NullMoney
    ELSE cleanedMoneySymbolFirst(removeChars(trim(String(v)), {","}))

normalizeCurrency(v) ==
    IF IsBlankRaw(v) THEN NullMoney
    ELSE cleanedMoney(removeChars(trim(String(v)), {","}))

\* --------------------------------------------------------------------------
\* Rows and column resolution (metricsEngine)
\* --------------------------------------------------------------------------
\* A row is the sequence of its [k, v] entries in insertion order, as
\* Object.keys() lists them (titles that are not array indices).
ObjectKeys(row) == [i \in 1..Len(row) |-> row[i].k]
HasKey(row, key) == \E i \in 1..Len(row) : row[i].k = key
\* row[key]
Get(row, key) ==
    IF HasKey(row, key) THEN row[CHOOSE i \in 1..Len(row) : row[i].k = key].v
    ELSE JsUndefined
\* row[key] = val
Put(row, key, val) ==
    IF HasKey(row, key)
    THEN [i \in 1..Len(row) |-> IF row[i].k = key THEN [k |-> key, v |-> val] ELSE row[i]]
    ELSE Append(row, [k |-> key, v |-> val])

\* obj[key] = (obj[key] || 0) + 1, the key coerced to a string
Tally(obj, key) ==
    Put(obj, String(key), IF HasKey(obj, String(key)) THEN Get(obj, String(key)) + 1 ELSE 1)

\* the callbacks of the two passes: k.toLowerCase() === c.toLowerCase() and
\* k.toLowerCase().includes(c.toLowerCase())
lowerMatches(pass, k, c) ==
    CASE pass = "exact" -> k = c
      [] pass = "substring" -> includes(k, c)
      [] OTHER -> k = c \/ includes(k, c)
keyMatches(pass, k, c) == lowerMatches(pass, toLowerCase(k), toLowerCase(c))

\* the first key among those at the indices hits, or undefined
firstKey(keys, hits) ==
    IF hits = {} THEN JsUndefined
    ELSE JsStr(keys[CHOOSE i \in hits : \A j \in hits : i <= j])
\* keys.find(...) for candidate c: the first key passing, or undefined
keysFind(keys, pass, c) ==
    firstKey(keys, {i \in 1..Len(keys) : keyMatches(pass, keys[i], c)})

\* the first truthy one of the finds, or null
firstTruthy(finds) ==
    IF \A i \in 1..Len(finds) : ~Truthy(finds[i]) THEN JsNull
    ELSE finds[CHOOSE i \in 1..Len(finds) :
                  /\ Truthy(finds[i])
                  /\ \A j \in 1..(i - 1) : ~Truthy(finds[j])]
\* one loop of findCol: the find of the first candidate whose find is truthy
firstFound(keys, candidates, pass) ==
    firstTruthy([i \in 1..Len(candidates) |-> keysFind(keys, pass, candidates[i])])

\* findCol in a single pass: each candidate in turn, exactly or as a substring
findColOnePass(rows, candidates) ==
    IF Len(rows) = 0 THEN JsNull
    ELSE firstFound(ObjectKeys(rows[1]), candidates, "either")

\* the second loop, entered when the first returned nothing
orSubstring(keys, candidates, exact) ==
    IF exact # JsNull THEN exact ELSE firstFound(keys, candidates, "substring")
findCol(rows, candidates) ==
    IF Len(rows) = 0 THEN JsNull
    ELSE orSubstring(ObjectKeys(rows[1]), candidates,
                     firstFound(ObjectKeys(rows[1]), candidates, "exact"))

\* --------------------------------------------------------------------------
\* normalizeBoard
\* --------------------------------------------------------------------------
\* A cell's value field is modelled after JSON.parse: j is "none" (null or
\* empty), "invalid" (JSON.parse throws), "object", "string" or "null"; an
\* object carries label, text, date, value (undefined when absent), whether it
\* has ids, and its labels joined by ", " (undefined when absent).
NoValue ==
    [j |-> "none", str |-> <<>>, label |-> JsUndefined, text |-> JsUndefined,
     date |-> JsUndefined, value |-> JsUndefined, ids |-> FALSE, labels |-> JsUndefined]
InvalidJson == [NoValue EXCEPT !.j = "invalid"]
JsonNull == [NoValue EXCEPT !.j = "null"]
JsonString(x) == [NoValue EXCEPT !.j = "string", !.str = x]
JsonObject == [NoValue EXCEPT !.j = "object"]

extractFromValue(valueStr, colType) ==
    IF valueStr.j \in {"none", "invalid"} THEN JsNull
    ELSE LET parsed == valueStr
             isObj == parsed.j = "object"
             field(f) == IF isObj THEN f ELSE JsUndefined
         IN  IF colType \in {Chars("color"), Chars("status")}
             THEN OrElse(field(parsed.label), OrElse(field(parsed.text), JsNull))
             ELSE IF colType = Chars("dropdown")
             THEN IF isObj /\ parsed.ids THEN JsNull
                  ELSE OrElse(field(parsed.labels), JsNull)
             ELSE IF colType = Chars("date") THEN OrElse(field(parsed.date), JsNull)
             ELSE IF colType = Chars("numeric")
             THEN IF parsed.j = "object" THEN JsStr(Chars("[object Object]"))
                  ELSE IF parsed.j = "string" /\ parsed.str # <<>> THEN JsStr(parsed.str)
                  ELSE JsNull
             ELSE IF parsed.j = "string" THEN JsStr(parsed.str)
             ELSE IF Truthy(field(parsed.text)) THEN parsed.text
             ELSE IF Truthy(field(parsed.value)) THEN JsStr(String(parsed.value))
             ELSE IF Truthy(field(parsed.label)) THEN parsed.label
             ELSE JsNull

\* /\bdate\b/i.test(title)
dateWord(title) ==
    LET t == toLowerCase(title) IN
    \E i \in 1..(Len(t) - 3) :
        /\ SubSeq(t, i, i + 3) = Chars("date")
        /\ i = 1 \/ ~IsWordChar(t[i - 1])
        /\ i + 3 = Len(t) \/ ~IsWordChar(t[i + 4])
\* /quantity|billed|invoice|balance/i.test(title)
quantityLike(title) ==
    \E w \in {Chars("quantity"), Chars("billed"), Chars("invoice"), Chars("balance")} :
        includes(toLowerCase(title), w)
moneyTitle(title) ==
    \E w \in {Chars("value"), Chars("amount"), Chars("price"), Chars("revenue"),
              Chars("billed"), Chars("collected"), Chars("receivable"), Chars("quantity")} :
        includes(toLowerCase(title), w)

\* columnMap[cv.id]?.type
columnMapType(columns, id) ==
    IF \E i \in 1..Len(columns) : columns[i].id = id
    THEN columns[CHOOSE i \in 1..Len(columns) :
                   columns[i].id = id /\ \A j \in (i + 1)..Len(columns) : columns[j].id # id].type
    ELSE <<>>

cellTitle(cv) == IF cv.column # <<>> THEN cv.column ELSE cv.id
cellType(columns, cv) == IF cv.type # <<>> THEN cv.type ELSE columnMapType(columns, cv.id)
\* the text of the cell, else what its value field yields, else ""
cellRawText(columns, cv) ==
    LET text == IF cv.text.k = "string" THEN cv.text.s ELSE <<>>
    IN  IF trim(text) = <<>> /\ cv.value.j # "none"
        THEN OrElse(extractFromValue(cv.value, cellType(columns, cv)), JsStr(<<>>)).s
        ELSE text

SetAdd(seq, x) == IF \E i \in 1..Len(seq) : seq[i] = x THEN seq ELSE Append(seq, x)

nbStart ==
    [row |-> <<>>, rows |-> <<>>, missingCounts |-> <<>>, currencyTypes |-> <<>>,
     warnings |-> <<>>]

\* missingCounts[title] = (missingCounts[title] || 0) + 1; row[title] = null
recordMissing(st, title) ==
    [st EXCEPT !.missingCounts = Tally(st.missingCounts, JsStr(title)),
               !.row = Put(st.row, title, JsNull)]

\* the date branch: row[title] = normalizeDate(rawText), with a warning when
\* that is null
dateCell(st, title, rawTxt, date) ==
    [st EXCEPT !.row = Put(st.row, title, date),
               !.warnings =
                   IF Truthy(date) THEN st.warnings
                   ELSE Append(st.warnings,
                               Chars("Unparseable date \"") \o rawTxt
                               \o Chars("\" in column \"") \o title \o <<"\"">>)]
\* the money branch: row[title], row[title + "_currency"] and currencyTypes
moneyCell(st, title, money) ==
    [st EXCEPT !.row = Put(Put(st.row, title, money.value),
                           title \o Chars("_currency"), money.currency),
               !.currencyTypes =
                   IF Truthy(money.currency)
                   THEN SetAdd(st.currencyTypes, money.currency.s)
                   ELSE st.currencyTypes]
\* the branches of the inner loop for a cell of this title, type and raw text
cellBranchDateFirst(st, title, colType, rawTxt) ==
    IF trim(rawTxt) = <<>>
    THEN recordMissing(st, title)
    ELSE IF (colType = Chars("date") \/ dateWord(title))
    THEN dateCell(st, title, rawTxt, normalizeDate(JsStr(rawTxt)))
    ELSE IF colType \in {Chars("numeric"), Chars("numbers")} \/ moneyTitle(title)
    THEN moneyCell(st, title, normalizeCurrency(JsStr(rawTxt)))
    ELSE [st EXCEPT !.row = Put(st.row, title, normalizeText(JsStr(rawTxt)))]
cellBranch(st, title, colType, rawTxt) ==
    IF trim(rawTxt) = <<>>
    THEN recordMissing(st, title)
    ELSE IF (colType = Chars("date") \/ dateWord(title)) /\ ~quantityLike(title)
    THEN dateCell(st, title, rawTxt, normalizeDate(JsStr(rawTxt)))
    ELSE IF colType \in {Chars("numeric"), Chars("numbers")} \/ moneyTitle(title)
    THEN moneyCell(st, title, normalizeCurrency(JsStr(rawTxt)))
    ELSE [st EXCEPT !.row = Put(st.row, title, normalizeText(JsStr(rawTxt)))]
\* the body of the inner loop, for cell cv of the current item
normalizeCell(columns, st, cv) ==
    cellBranch(st, cellTitle(cv), cellType(columns, cv), cellRawText(columns, cv))

\* [...currencyTypes].join(", ")
RECURSIVE joinComma(_)
joinComma(xs) ==
    IF xs = <<>> THEN <<>>
    ELSE IF Len(xs) = 1 THEN xs[1]
    ELSE xs[1] \o Chars(", ") \o joinComma(Tail(xs))

\* after the loops: the mixed-currency warning and the returned record
normalizeReturnAnyCurrency(name, st) ==
    LET warnings == IF Len(st.currencyTypes) > 0
                    THEN Append(st.warnings, Chars("Mixed currencies detected: ")
                                             \o joinComma(st.currencyTypes))
                    ELSE st.warnings
    IN  [ boardName |-> name,
          rows |-> st.rows,
          dataQuality |-> [ totalRows |-> Len(st.rows),
                            missingCounts |-> st.missingCounts,
                            currencyTypes |-> st.currencyTypes,
                            warnings |-> warnings ] ]
normalizeReturn(name, st) ==
    LET warnings == IF Len(st.currencyTypes) > 1
                    THEN Append(st.warnings, Chars("Mixed currencies detected: ")
                                             \o joinComma(st.currencyTypes))
                    ELSE st.warnings
    IN  [ boardName |-> name,
          rows |-> st.rows,
          dataQuality |-> [ totalRows |-> Len(st.rows),
                            missingCounts |-> st.missingCounts,
                            currencyTypes |-> st.currencyTypes,
                            warnings |-> warnings ] ]

\* --------------------------------------------------------------------------
\* computeDealsMetrics
\* --------------------------------------------------------------------------
\* /won|closed.*won|completed|delivered/i and /won|closed.*won/i,
\* /lost|closed.*lost/i : tested on String(value)
thenLater(s, a, b) ==
    \E i \in 1..(Len(s) - Len(a) + 1), j \in 1..(Len(s) - Len(b) + 1) :
        /\ SubSeq(s, i, i + Len(a) - 1) = a /\ SubSeq(s, j, j + Len(b) - 1) = b
        /\ i + Len(a) <= j
        /\ \A h \in (i + Len(a))..(j - 1) : s[h] # "\n"
stageWonRe(v) ==
    LET s == toLowerCase(String(v))
    IN  \/ includes(s, Chars("won")) \/ thenLater(s, Chars("closed"), Chars("won"))
        \/ includes(s, Chars("completed")) \/ includes(s, Chars("delivered"))
statusWonRe(v) ==
    LET s == toLowerCase(String(v))
    IN  includes(s, Chars("won")) \/ thenLater(s, Chars("closed"), Chars("won"))
statusLostRe(v) ==
    LET s == toLowerCase(String(v))
    IN  includes(s, Chars("lost")) \/ thenLater(s, Chars("closed"), Chars("lost"))

Unknown == JsStr(Chars("Unknown"))

Ratio(num, den) == [num |-> num, den |-> den]
RatioZero == Ratio(Zero, 1)

dealCandidates ==
    LET l(xs) == [i \in 1..Len(xs) |-> Chars(xs[i])] IN
    [ value |-> l(<<"masked deal value", "deal value", "value", "amount", "deal_value",
                    "price", "revenue">>),
      stage |-> l(<<"deal stage", "stage", "deal_stage">>),
      status |-> l(<<"deal status", "status">>),
      sector |-> l(<<"sector/service", "sector", "industry", "vertical">>),
      date |-> l(<<"tentative close date", "close date (a)", "close date", "closing date",
                   "expected close", "close_date">>),
      prob |-> l(<<"closure probability", "probability", "win probability">>) ]

\* col ? r[col] : undefined
Cell(r, col) == IF Truthy(col) THEN Get(r, col.s) ELSE JsUndefined

\* `Q${Math.ceil((d.getMonth() + 1) / 3)} ${d.getFullYear()}` of new Date(v), in
\* local time: west of UTC a UTC midnight is the evening of the day before
quarterOf(v, west) ==
    LET t == newDate(String(v))
        utcMidnight == Len(String(v)) = 10
        c == CivilFromDays(IF west /\ utcMidnight THEN t.n.m - 1 ELSE t.n.m)
    IN  <<"Q">> \o IntToDigits((c.m + 2) \div 3) \o <<" ">> \o IntToDigits(c.y)

dmStart ==
    [ count |-> 0, totalPipeline |-> Zero, closedWon |-> 0, closedLost |-> 0,
      stageDistribution |-> <<>>, statusDistribution |-> <<>>, probabilityDist |-> <<>>,
      sectorBreakdown |-> <<>>, quarterly |-> <<>> ]

\* the six columns resolved before the loop
dealCols(rows) ==
    [ value |-> findCol(rows, dealCandidates.value),
      stage |-> findCol(rows, dealCandidates.stage),
      status |-> findCol(rows, dealCandidates.status),
      sector |-> findCol(rows, dealCandidates.sector),
      date |-> findCol(rows, dealCandidates.date),
      prob |-> findCol(rows, dealCandidates.prob) ]

\* typeof c === "number" ? c : 0
numOrZero(c) == IF c.k = "number" THEN c.n ELSE Zero
\* the cell of the date column is a string new Date() and the ISO pattern accept
isIsoDate(col, c) ==
    /\ Truthy(col) /\ Truthy(c)
    /\ c.k = "string" /\ ISO_RE(c.s)
    /\ newDate(c.s).k = "number"
\* sectorBreakdown[sector] = { count: count + 1, value: value + val }
sectorEntry(breakdown, key, val) ==
    LET old == IF HasKey(breakdown, key) THEN Get(breakdown, key)
               ELSE [count |-> 0, value |-> Zero]
    IN  Put(breakdown, key, [count |-> old.count + 1, value |-> DecAdd(old.value, val)])
\* quarterly[q] = (quarterly[q] || 0) + val
addQuarter(quarterly, q, val) ==
    Put(quarterly, q, DecAdd(IF HasKey(quarterly, q) THEN Get(quarterly, q) ELSE Zero, val))

\* the updates of the loop body, from the values read off the row
dealsCount(d, cols, west, val, stage, status, sector, closeDate, probability) ==
    [ count |-> d.count + 1,
      totalPipeline |-> DecAdd(d.totalPipeline, val),
      closedWon |-> d.closedWon + (IF stageWonRe(stage) THEN 1 ELSE 0)
                                + (IF statusWonRe(status) THEN 1 ELSE 0),
      closedLost |-> d.closedLost + (IF statusLostRe(status) THEN 1 ELSE 0),
      stageDistribution |-> Tally(d.stageDistribution, stage),
      statusDistribution |-> Tally(d.statusDistribution, status),
      probabilityDist |->
          IF Truthy(cols.prob)
          THEN Tally(d.probabilityDist, OrElse(probability, Unknown))
          ELSE d.probabilityDist,
      sectorBreakdown |-> sectorEntry(d.sectorBreakdown, String(sector), val),
      quarterly |->
          IF isIsoDate(cols.date, closeDate)
          THEN addQuarter(d.quarterly, quarterOf(closeDate, west), val)
          ELSE d.quarterly ]
\* the body of the loop for row r, with the columns resolved
dealsRow(r, cols, west, d) ==
    dealsCount(d, cols, west, numOrZero(Cell(r, cols.value)),
               OrElse(Cell(r, cols.stage), Unknown), OrElse(Cell(r, cols.status), Unknown),
               OrElse(canonicalizeSector(Cell(r, cols.sector)), Unknown),
               Cell(r, cols.date), Cell(r, cols.prob))
\* the body of the loop for row r of rows
dealsLoop(rows, r, west, d) == dealsRow(r, dealCols(rows), west, d)

Min(a, b) == IF a < b THEN a ELSE b

\* the returned record without the clamp of closedWon
dealsReturnUnclamped(d) ==
    [ totalPipeline |-> d.totalPipeline,
      dealCount |-> d.count,
      avgDealSize |-> IF d.count # 0 THEN Ratio(d.totalPipeline, d.count) ELSE RatioZero,
      closeRate |-> IF d.count # 0 THEN Ratio(DecInt(d.closedWon), d.count) ELSE RatioZero,
      closedWon |-> d.closedWon,
      closedLost |-> d.closedLost,
      stageDistribution |-> d.stageDistribution,
      statusDistribution |-> d.statusDistribution,
      probabilityDistribution |-> d.probabilityDist,
      sectorBreakdown |-> d.sectorBreakdown,
      quarterlyRevenue |-> d.quarterly ]

\* closedWon = Math.min(closedWon, count), then the returned record
dealsReturn(d) == dealsReturnUnclamped([d EXCEPT !.closedWon = Min(d.closedWon, d.count)])

\* --------------------------------------------------------------------------
\* computeWorkOrdersMetrics
\* --------------------------------------------------------------------------
\* a regex a.b : a, one character that is not a line end, b
dotJoin(s, a, b) ==
    \E i \in 1..(Len(s) - Len(a) - Len(b)) :
        /\ SubSeq(s, i, i + Len(a) - 1) = a
        /\ s[i + Len(a)] # "\n"
        /\ SubSeq(s, i + Len(a) + 1, i + Len(a) + Len(b)) = b
\* /completed|complete|closed/i, /not started|not.started/i,
\* /ongoing|in.progress|executed/i : tested on String(value)
completedRe(v) ==
    LET s == toLowerCase(String(v))
    IN  \/ includes(s, Chars("completed")) \/ includes(s, Chars("complete"))
        \/ includes(s, Chars("closed"))
notStartedRe(v) ==
    LET s == toLowerCase(String(v))
    IN  includes(s, Chars("not started")) \/ dotJoin(s, Chars("not"), Chars("started"))
ongoingRe(v) ==
    LET s == toLowerCase(String(v))
    IN  \/ includes(s, Chars("ongoing")) \/ dotJoin(s, Chars("in"), Chars("progress"))
        \/ includes(s, Chars("executed"))

woCandidates ==
    LET l(xs) == [i \in 1..Len(xs) |-> Chars(xs[i])] IN
    [ execStatus |-> l(<<"execution status", "status", "state", "work order status">>),
      woStatus |-> l(<<"wo status", "wo status (billed)", "billing status">>),
      start |-> l(<<"probable start date", "start date", "start", "start_date">>),
      end |-> l(<<"probable end date", "end date", "completion date", "due date",
                  "end_date">>),
      amount |-> l(<<"amount in rupees", "amount", "value">>),
      billed |-> l(<<"billed value", "billed">>),
      collected |-> l(<<"collected amount", "collected">>),
      sector |-> l(<<"sector", "industry">>),
      nature |-> l(<<"nature of work", "type of work", "work type">>) ]

\* new Date(v) of a cell: the day of a YYYY-MM-DD string, NaN for a text that
\* holds no date (the cells drawn are of these two kinds)
dateOf(v) == IF v.k = "string" /\ ISO_RE(v.s) THEN newDate(v.s) ELSE NaN

\* endCol && r[endCol], due = new Date(r[endCol]), !isNaN(due) && due < now
pastDue(r, endCol, now) ==
    /\ Truthy(endCol) /\ Truthy(Cell(r, endCol))
    /\ dateOf(Cell(r, endCol)).k = "number"
    /\ DecLess(dateOf(Cell(r, endCol)).n, now)

\* the if / else-if chain over execStatus: what each counter gains, and
\* whether the branch looks at the end date
woBranch(closed, completed, notStarted, ongoing, open, due) ==
    [closed |-> closed, completed |-> completed, notStarted |-> notStarted,
     ongoing |-> ongoing, open |-> open, checksDue |-> due]
\* the three tests as independent ifs
woClassifyUnchained(execStatus) ==
    LET c == IF completedRe(execStatus) THEN 1 ELSE 0
        n == IF notStartedRe(execStatus) THEN 1 ELSE 0
        o == IF ongoingRe(execStatus) THEN 1 ELSE 0
        rest == IF c + n + o = 0 THEN 1 ELSE 0
    IN  woBranch(c, c, n, o, n + o + rest, o + rest > 0)
woClassify(execStatus) ==
    IF completedRe(execStatus) THEN woBranch(1, 1, 0, 0, 0, FALSE)
    ELSE IF notStartedRe(execStatus) THEN woBranch(0, 0, 1, 0, 1, FALSE)
    ELSE IF ongoingRe(execStatus) THEN woBranch(0, 0, 0, 1, 1, TRUE)
    ELSE woBranch(0, 0, 0, 0, 1, TRUE)

wmStart ==
    [ open |-> 0, closed |-> 0, overdue |-> 0, completed |-> 0, notStarted |-> 0,
      ongoing |-> 0, totalDays |-> 0, daysCount |-> 0, totalAmount |-> Zero,
      totalBilled |-> Zero, totalCollected |-> Zero, execStatusDist |-> <<>>,
      sectorDist |-> <<>>, natureDist |-> <<>> ]

\* col && typeof r[col] === "number" ? r[col] : nothing added
numberCell(r, col) == IF Cell(r, col).k = "number" THEN Cell(r, col).n ELSE Zero

\* the columns resolved before the loop
woCols(rows) ==
    [ execStatus |-> findCol(rows, woCandidates.execStatus),
      start |-> findCol(rows, woCandidates.start),
      end |-> findCol(rows, woCandidates.end),
      amount |-> findCol(rows, woCandidates.amount),
      billed |-> findCol(rows, woCandidates.billed),
      collected |-> findCol(rows, woCandidates.collected),
      sector |-> findCol(rows, woCandidates.sector),
      nature |-> findCol(rows, woCandidates.nature) ]

\* the duration analysis: whether the row counts, and its days; s and e are the
\* dates of the two cells
woDuration(cols, startCell, endCell, s, e) ==
    IF /\ Truthy(cols.start) /\ Truthy(cols.end)
       /\ Truthy(startCell) /\ Truthy(endCell)
       /\ s.k = "number" /\ e.k = "number"
       /\ e.n.m - s.n.m >= 0
    THEN [count |-> 1, days |-> e.n.m - s.n.m]
    ELSE [count |-> 0, days |-> 0]

\* the updates of the loop body: b the branch taken, due whether the end date
\* is past, t the duration
woCount(w, cols, b, execStatus, due, t, amount, billed, collected, sectorCell, natureCell) ==
    [ open |-> w.open + b.open,
      closed |-> w.closed + b.closed,
      overdue |-> w.overdue + (IF b.checksDue /\ due THEN 1 ELSE 0),
      completed |-> w.completed + b.completed,
      notStarted |-> w.notStarted + b.notStarted,
      ongoing |-> w.ongoing + b.ongoing,
      totalDays |-> w.totalDays + t.days,
      daysCount |-> w.daysCount + t.count,
      totalAmount |-> DecAdd(w.totalAmount, amount),
      totalBilled |-> DecAdd(w.totalBilled, billed),
      totalCollected |-> DecAdd(w.totalCollected, collected),
      execStatusDist |-> Tally(w.execStatusDist, execStatus),
      sectorDist |->
          IF Truthy(cols.sector)
          THEN Tally(w.sectorDist, OrElse(canonicalizeSector(sectorCell), Unknown))
          ELSE w.sectorDist,
      natureDist |->
          IF Truthy(cols.nature)
          THEN Tally(w.natureDist, OrElse(natureCell, Unknown))
          ELSE w.natureDist ]
\* the row's status and dates, then the updates
woStatusRow(r, cols, now, w, execStatus, startCell, endCell) ==
    woCount(w, cols, woClassify(execStatus), execStatus, pastDue(r, cols.end, now),
            woDuration(cols, startCell, endCell, dateOf(startCell), dateOf(endCell)),
            numberCell(r, cols.amount), numberCell(r, cols.billed),
            numberCell(r, cols.collected), Cell(r, cols.sector), Cell(r, cols.nature))
\* the body of the loop for row r, with the columns resolved
woRowWith(r, cols, now, w) ==
    woStatusRow(r, cols, now, w, OrElse(Cell(r, cols.execStatus), Unknown),
                Cell(r, cols.start), Cell(r, cols.end))
\* the body of the loop for row r of rows
woLoop(rows, r, now, w) == woRowWith(r, woCols(rows), now, w)

\* the returned record with the quotients taken without their guards
woReturnUnguarded(w) ==
    [ total |-> w.open + w.closed,
      open |-> w.open, closed |-> w.closed, completed |-> w.completed,
      notStarted |-> w.notStarted, ongoing |-> w.ongoing, overdue |-> w.overdue,
      completionPct |-> Ratio(DecInt(w.closed), w.open + w.closed),
      avgCompletionDays |-> Ratio(DecInt(w.totalDays), w.daysCount),
      totalAmount |-> w.totalAmount, totalBilled |-> w.totalBilled,
      totalCollected |-> w.totalCollected,
      collectionRate |-> Ratio(w.totalCollected, w.totalAmount),
      executionStatusDistribution |-> w.execStatusDist,
      sectorDistribution |-> w.sectorDist,
      natureOfWorkDistribution |-> w.natureDist ]

\* total = open + closed and the returned record; a / b of a sum b is kept as
\* the pair
woReturn(w) ==
    LET total == w.open + w.closed IN
    [ woReturnUnguarded(w) EXCEPT
        !.completionPct = IF total # 0 THEN Ratio(DecInt(w.closed), total) ELSE RatioZero,
        !.avgCompletionDays = IF w.daysCount # 0
                              THEN Ratio(DecInt(w.totalDays), w.daysCount) ELSE JsNull,
        !.collectionRate = IF w.totalAmount.m # 0
                           THEN Ratio(w.totalCollected, w.totalAmount) ELSE RatioZero ]

\* --------------------------------------------------------------------------
\* crossBoardAnalysis
\* --------------------------------------------------------------------------
\* a TypeError raised by the call of a method a value does not have
TypeError(msg) == [k |-> "thrown", s |-> Chars(msg), n |-> Zero]

\* (r._name || "").toLowerCase()
lowerName(r) == toLowerCase(String(OrElse(Get(r, Chars("_name")), JsStr(<<>>))))
\* Object.values(r).filter((v) => typeof v === "string").join(" ").toLowerCase()
RECURSIVE joinSpace(_)
joinSpace(xs) ==
    IF xs = <<>> THEN <<>>
    ELSE IF Len(xs) = 1 THEN xs[1]
    ELSE xs[1] \o <<" ">> \o joinSpace(Tail(xs))
stringCells(r) == SelectSeq([i \in 1..Len(r) |-> r[i].v], LAMBDA v : v.k = "string")
allText(r) == toLowerCase(joinSpace([i \in 1..Len(stringCells(r)) |-> stringCells(r)[i].s]))

\* the callback of dealEntries.some without the test of the length of the name
nameLinksAnyLength(d, r) ==
    \/ includes(lowerName(r), lowerName(d))
    \/ includes(lowerName(d), lowerName(r))
    \/ includes(allText(r), lowerName(d))
\* the callback of dealEntries.some, for the deal of row d and the work order r
nameLinks(d, r) ==
    IF Len(lowerName(d)) < 3 THEN FALSE
    ELSE \/ includes(lowerName(r), lowerName(d))
         \/ includes(lowerName(d), lowerName(r))
         \/ includes(allText(r), lowerName(d))
linkedWOs(dealsRows, woRws) ==
    SelectSeq(woRws, LAMBDA r : \E i \in 1..Len(dealsRows) : nameLinks(dealsRows[i], r))

crossSectorCandidates == <<Chars("sector"), Chars("industry"), Chars("vertical")>>
\* dealsRows.map((r) => r[sectorCol]).filter(Boolean)
sectorCells(dealsRows) ==
    LET sectorCol == findCol(dealsRows, crossSectorCandidates) IN
    IF Truthy(sectorCol)
    THEN SelectSeq([i \in 1..Len(dealsRows) |-> Get(dealsRows[i], sectorCol.s)],
                   LAMBDA v : Truthy(v))
    ELSE <<>>
\* s.toLowerCase() is called on a value that is not a string
sectorThrows(dealsRows) ==
    \E i \in 1..Len(sectorCells(dealsRows)) : sectorCells(dealsRows)[i].k # "string"
\* [...new Set(....map((s) => s.toLowerCase()))]
RECURSIVE lowerSet(_, _)
lowerSet(cells, acc) ==
    IF cells = <<>> THEN acc
    ELSE lowerSet(Tail(cells), SetAdd(acc, toLowerCase(Head(cells).s)))
dealSectors(dealsRows) == lowerSet(sectorCells(dealsRows), <<>>)
sectorLinkedWOs(dealsRows, woRws) ==
    IF dealSectors(dealsRows) # <<>>
    THEN SelectSeq(woRws, LAMBDA r : \E i \in 1..Len(dealSectors(dealsRows)) :
                                        includes(allText(r), dealSectors(dealsRows)[i]))
    ELSE <<>>

\* the two counts added
totalLinkedSum(byName, bySector) == byName + bySector
\* Math.max(linkedWOs.length, sectorLinkedWOs.length)
totalLinked(byName, bySector) == IF byName > bySector THEN byName ELSE bySector

\* (x * 100).toFixed(0) of x = num / den, num >= 0 and den > 0
pctFixed0(num, den) == IntToDigits((200 * num + den) \div (2 * den))
\* ratio.num / ratio.den < a / b, for b > 0
ratioLess(ratio, a, b) == DecLess(Dec(ratio.num.m * b, ratio.num.e), DecInt(a * ratio.den))

crossValueCandidates ==
    LET l(xs) == [i \in 1..Len(xs) |-> Chars(xs[i])] IN
    l(<<"deal value", "value", "amount", "deal_value", "price", "revenue">>)
\* typeof r[valueCol] === "number" && r[valueCol] > dealsMetrics.avgDealSize
highValue(r, valueCol, dMetrics) ==
    /\ Get(r, valueCol.s).k = "number"
    /\ DecLess(dMetrics.avgDealSize.num,
               Dec(Get(r, valueCol.s).n.m * dMetrics.avgDealSize.den, Get(r, valueCol.s).n.e))
highValueNoWO(dealsRows, woRws, dMetrics) ==
    LET valueCol == findCol(dealsRows, crossValueCandidates) IN
    IF Truthy(valueCol)
    THEN SelectSeq(dealsRows,
                   LAMBDA d : /\ highValue(d, valueCol, dMetrics)
                              /\ ~\E i \in 1..Len(woRws) :
                                     includes(lowerName(woRws[i]), lowerName(d)))
    ELSE <<>>

\* the em dash of the texts, a one-element "character"
EmDash == <<"<emdash>">>
\* totalPipeline > 0 && dealCount > 20 && avgDealSize < totalPipeline * 0.03
fragmentedAbove20(dMetrics) ==
    /\ DecLess(Zero, dMetrics.totalPipeline) /\ dMetrics.dealCount > 20
fragmented(dMetrics) ==
    /\ DecLess(Zero, dMetrics.totalPipeline) /\ dMetrics.dealCount > 20
    /\ DecLess(Dec(100 * dMetrics.avgDealSize.num.m, dMetrics.avgDealSize.num.e),
               Dec(3 * dMetrics.avgDealSize.den * dMetrics.totalPipeline.m,
                   dMetrics.totalPipeline.e))
\* the insights, in the order they are pushed
crossInsights(dealsRows, woRws, dMetrics, wMetrics, linked) ==
    LET one(cond, text) == IF cond THEN <<text>> ELSE <<>>
        closePct == pctFixed0(dMetrics.closeRate.num.m, dMetrics.closeRate.den)
        orphans == Len(highValueNoWO(dealsRows, woRws, dMetrics))
    IN  (IF linked > 0
         THEN <<IntToDigits(linked) \o Chars(" work orders appear linked to active deals (by name or sector matching).")>>
         ELSE <<Chars("No direct linkage found between work orders and deals ") \o EmDash \o Chars(" consider adding cross-references in Monday.com.")>>)
        \o one(ratioLess(dMetrics.closeRate, 3, 10),
               Chars("Risk: Close rate is ") \o closePct
               \o Chars("% (below 30%) ") \o EmDash \o Chars(" pipeline conversion needs urgent attention."))
        \o one(wMetrics.overdue > 0,
               Chars("Risk: ") \o IntToDigits(wMetrics.overdue) \o Chars(" work orders overdue (")
               \o (IF wMetrics.total > 0 THEN pctFixed0(wMetrics.overdue, wMetrics.total)
                   ELSE Chars("Infinity"))
               \o Chars("% of total) ") \o EmDash \o Chars(" may impact deal delivery timelines."))
        \o one(ratioLess(wMetrics.completionPct, 1, 2),
               Chars("Operations bottleneck: Only ")
               \o pctFixed0(wMetrics.completionPct.num.m, wMetrics.completionPct.den)
               \o Chars("% work orders complete ") \o EmDash \o Chars(" could delay deal fulfillment."))
        \o one(fragmented(dMetrics),
               Chars("Pipeline fragmentation: Many small deals ") \o EmDash \o Chars(" consider focusing sales effort on fewer, larger opportunities."))
        \o one(orphans > 0,
               IntToDigits(orphans)
               \o Chars(" high-value deals have no matching work orders ") \o EmDash \o Chars(" ensure operational readiness."))

crossBoardAnalysis(dealsRows, woRws, dMetrics, wMetrics) ==
    IF sectorThrows(dealsRows) THEN TypeError("s.toLowerCase is not a function")
    ELSE LET byName == Len(linkedWOs(dealsRows, woRws))
             bySector == Len(sectorLinkedWOs(dealsRows, woRws))
         IN  [ linkedWorkOrders |-> totalLinked(byName, bySector),
               sectorLinkedWorkOrders |-> bySector,
               insights |-> crossInsights(dealsRows, woRws, dMetrics, wMetrics,
                                          totalLinked(byName, bySector)) ]

\* the two aggregations over a whole row list, the columns resolved once
RECURSIVE dealsFold(_, _, _, _, _)
dealsFold(rows, i, west, cols, d) ==
    IF i > Len(rows) THEN d
    ELSE dealsFold(rows, i + 1, west, cols, dealsRow(rows[i], cols, west, d))
computeDealsMetrics(rows, west) == dealsReturn(dealsFold(rows, 1, west, dealCols(rows), dmStart))
RECURSIVE woFold(_, _, _, _, _)
woFold(rows, i, now, cols, w) ==
    IF i > Len(rows) THEN w
    ELSE woFold(rows, i + 1, now, cols, woRowWith(rows[i], cols, now, w))
computeWorkOrdersMetrics(rows, now) == woReturn(woFold(rows, 1, now, woCols(rows), wmStart))

\* --------------------------------------------------------------------------
\* computeConfidence
\* --------------------------------------------------------------------------
\* exact fractions n / d, d > 0, in lowest terms
RECURSIVE Gcd(_, _)
Gcd(a, b) == IF b = 0 THEN a ELSE Gcd(b, a % b)
Abs(x) == IF x < 0 THEN 0 - x ELSE x
Rat(n, d) == LET g == Gcd(Abs(n), d) IN [n |-> n \div g, d |-> d \div g]
RatSub(a, b) == Rat(a.n * b.d - b.n * a.d, a.d * b.d)
RatLess(a, b) == a.n * b.d < b.n * a.d

\* Object.values(dq.missingCounts).reduce((a, b) => a + b, 0)
RECURSIVE sumValues(_)
sumValues(obj) == IF obj = <<>> THEN 0 ELSE Head(obj).v + sumValues(Tail(obj))

\* the body of the loop for one report: score after it
confidenceStep(score, dq) ==
    LET totalMissing == sumValues(dq.missingCounts)
        product == dq.totalRows * Len(dq.missingCounts)
        maxPossible == IF product # 0 THEN product ELSE 1
        \* missingRatio * 0.3
        penalty == Rat(3 * totalMissing, 10 * maxPossible)
        afterMissing == RatSub(score, penalty)
    IN  IF Len(dq.warnings) > 3 THEN RatSub(afterMissing, Rat(5, 100)) ELSE afterMissing
RECURSIVE confidenceScore(_, _)
confidenceScore(qualities, score) ==
    IF qualities = <<>> THEN score
    ELSE confidenceScore(Tail(qualities), confidenceStep(score, Head(qualities)))

\* parseFloat(score.toFixed(2)), in hundredths: the nearest hundredth; of a score
\* halfway between two hundredths the binary value of the score decides, so
\* either neighbour
toFixed2(score) ==
    LET up == (200 * score.n + score.d) \div (2 * score.d)
    IN  IF (200 * score.n + score.d) % (2 * score.d) = 0 THEN {up - 1, up} ELSE {up}

\* the results without the clamp into [0.1, 1]
computeConfidenceUnclamped(qualities) ==
    {JsNum(Dec(h, 2)) :
        h \in toFixed2(confidenceScore(SelectSeq(qualities, LAMBDA q : q # JsUndefined),
                                       Rat(85, 100)))}
\* the numbers computeConfidence can return for results.dataQuality = qualities
computeConfidence(qualities) ==
    {JsNum(Dec(IF h < 10 THEN 10 ELSE IF h > 100 THEN 100 ELSE h, 2)) :
        h \in toFixed2(confidenceScore(SelectSeq(qualities, LAMBDA q : q # JsUndefined),
                                       Rat(85, 100)))}

\* --------------------------------------------------------------------------
\* mondayClient: getToken, mondayRequest, fetchBoard
\* --------------------------------------------------------------------------
MAX_RETRIES == 3
RETRY_BASE_MS == 1000
RECURSIVE Pow2(_)
Pow2(n) == IF n = 0 THEN 1 ELSE 2 * Pow2(n - 1)

\* what one fetch() of an attempt comes to: an exception of fetch or of
\* res.json() (thrown), or a status with a body { errors, error_message, data }
Response(status, thrown, errors, error_message, data) ==
    [status |-> status, thrown |-> thrown, errors |-> errors,
     error_message |-> error_message, data |-> data]
\* the value mondayRequest resolves to
Reply(error, data) == [error |-> error, data |-> data]
NoReply == Reply(JsUndefined, JsUndefined)

\* let lastError, and the loop variable
reqStart == [attempt |-> 0, lastError |-> JsUndefined, waits |-> <<>>]
\* await new Promise((r) => setTimeout(r, RETRY_BASE_MS * Math.pow(2, attempt)))
waitedFlat(rq) == [rq EXCEPT !.waits = Append(@, RETRY_BASE_MS)]
waited(rq) == [rq EXCEPT !.waits = Append(@, RETRY_BASE_MS * Pow2(rq.attempt))]

\* e.message of the errors, joined with "; "
RECURSIVE joinSemi(_)
joinSemi(xs) ==
    IF xs = <<>> THEN <<>>
    ELSE IF Len(xs) = 1 THEN xs[1]
    ELSE xs[1] \o Chars("; ") \o joinSemi(Tail(xs))

\* one pass of the loop body on the response res: the value returned from inside
\* the loop (NoReply when the loop goes on) and the request afterwards
mondayAttempt(rq, res) ==
    LET next(r) == [r EXCEPT !.attempt = @ + 1]
    IN  IF res.thrown # JsUndefined
        THEN [ret |-> NoReply,
              rq |-> next(IF rq.attempt < MAX_RETRIES - 1
                          THEN waited([rq EXCEPT !.lastError = res.thrown])
                          ELSE [rq EXCEPT !.lastError = res.thrown])]
        ELSE IF res.status = 401
        THEN [ret |-> Reply(JsStr(Chars("Invalid Monday.com API token. Please verify your credentials.")),
                            JsNull),
              rq |-> rq]
        ELSE IF res.status = 429
        THEN [ret |-> NoReply, rq |-> next(waited(rq))]
        ELSE IF ~(res.status \in 200..299)
        THEN [ret |-> Reply(JsStr(Chars("Monday.com API returned HTTP ")
                                  \o IntToDigits(res.status)), JsNull),
              rq |-> rq]
        ELSE IF Len(res.errors) > 0
        THEN [ret |-> Reply(JsStr(Chars("Monday.com API error: ") \o joinSemi(res.errors)),
                            JsNull),
              rq |-> rq]
        ELSE IF Truthy(res.error_message)
        THEN [ret |-> Reply(res.error_message, JsNull), rq |-> rq]
        ELSE [ret |-> Reply(JsNull, res.data), rq |-> rq]

\* the return after the loop
mondayExhaustedNoCause(rq) ==
    Reply(JsStr(Chars("Network failure after ") \o IntToDigits(MAX_RETRIES)
                \o Chars(" retries")),
          JsNull)
mondayExhausted(rq) ==
    Reply(JsStr(Chars("Network failure after ") \o IntToDigits(MAX_RETRIES)
                \o Chars(" retries: ")
                \o (IF rq.lastError = JsUndefined THEN Chars("undefined")
                    ELSE rq.lastError.s)),
          JsNull)

\* the attempt and, when it was the last one, the return after the loop
mondayStep(rq, res) ==
    LET a == mondayAttempt(rq, res)
    IN  IF a.ret # NoReply THEN a
        ELSE IF a.rq.attempt < MAX_RETRIES THEN a
        ELSE [ret |-> mondayExhausted(a.rq), rq |-> a.rq]

\* fetchBoard after mondayRequest resolved to reply; data is null or { boards }
fetchBoardReturn(boardId, reply) ==
    IF Truthy(reply.error) THEN [error |-> reply.error, board |-> JsNull]
    ELSE IF reply.data = JsNull \/ reply.data.boards = <<>>
    THEN [error |-> JsStr(Chars("Board ") \o boardId \o Chars(" not found or empty.")),
          board |-> JsNull]
    ELSE [error |-> JsNull, board |-> reply.data.boards[1]]

\* --------------------------------------------------------------------------
\* normalizeBoard over a whole board, and executePlan
\* --------------------------------------------------------------------------
RECURSIVE cellsFold(_, _, _, _)
cellsFold(columns, st, cells, j) ==
    IF j > Len(cells) THEN st
    ELSE cellsFold(columns, normalizeCell(columns, st, cells[j]), cells, j + 1)
\* rows.push(row)
pushRow(st) == [st EXCEPT !.rows = Append(@, st.row)]
\* const row = { _id: item.id, _name: item.name }
rowStart(st, item) ==
    [st EXCEPT !.row = << [k |-> Chars("_id"), v |-> JsStr(item.id)],
                          [k |-> Chars("_name"), v |-> JsStr(item.name)] >>]
RECURSIVE itemsFold(_, _, _)
itemsFold(b, st, i) ==
    IF i > Len(b.items) THEN st
    ELSE itemsFold(b, pushRow(cellsFold(b.columns, rowStart(st, b.items[i]),
                                        b.items[i].column_values, 1)), i + 1)
normalizeBoard(b) == normalizeReturn(b.name, itemsFold(b, nbStart, 1))

\* const results = { metrics: {}, dataQuality: {}, tables: {} }; dealsNorm and
\* woNorm null; the board ids handed to fetchBoard so far
exStart ==
    [results |-> [metrics |-> <<>>, dataQuality |-> <<>>, tables |-> <<>>],
     dealsNorm |-> JsNull, woNorm |-> JsNull, fetches |-> <<>>]

\* plan.data_sources || []
sourcesOf(p) == IF Truthy(p.data_sources) THEN p.data_sources.s ELSE <<>>
arrayIncludes(xs, x) == \E i \in 1..Len(xs) : xs[i] = Chars(x)
needDeals(p) == arrayIncludes(sourcesOf(p), "deals") \/ arrayIncludes(sourcesOf(p), "all")
needWO(p) == arrayIncludes(sourcesOf(p), "work_orders") \/ arrayIncludes(sourcesOf(p), "all")

\* rows.slice(0, 20)
slice20(rows) == SubSeq(rows, 1, Min(Len(rows), 20))

\* return { error }, with what was gathered so far spread into it
errorResultPartial(results, error) ==
    [error |-> error, metrics |-> results.metrics, dataQuality |-> results.dataQuality,
     tables |-> results.tables]
\* return { error }
errorResult(results, error) == [error |-> error]

\* the three assignments of a stage after normalizeBoard(board)
stageResults(results, key, norm, metrics) ==
    [results EXCEPT !.metrics = Put(@, Chars(key), metrics),
                    !.dataQuality = Put(@, Chars(key), norm.dataQuality),
                    !.tables = Put(@, Chars(key), slice20(norm.rows))]
\* the deals stage and the work-orders stage from normalizeBoard's result on
dealsStage(st, norm) ==
    [st EXCEPT !.dealsNorm = norm,
               !.results = stageResults(@, "deals", norm,
                                        computeDealsMetrics(norm.rows, FALSE))]
workOrdersStage(st, norm, now) ==
    [st EXCEPT !.woNorm = norm,
               !.results = stageResults(@, "workOrders", norm,
                                        computeWorkOrdersMetrics(norm.rows, now))]

\* the callback of dealsNorm.rows.filter for the lowered sector sec
sectorMatches(r, sec) ==
    \E i \in 1..Len(r) : r[i].v.k = "string" /\ includes(toLowerCase(r[i].v.s), sec)

\* if (plan.filters) { ... }
applyFiltersInPlace(p, st) ==
    LET f == p.filters
        bySector ==
            IF f # JsUndefined /\ Truthy(f.sector) /\ st.dealsNorm # JsNull
            THEN LET filtered == SelectSeq(st.dealsNorm.rows,
                                           LAMBDA r : sectorMatches(r, toLowerCase(f.sector.s)))
                 IN  [st.results EXCEPT
                         !.metrics = Put(@, Chars("deals"),
                                         computeDealsMetrics(filtered, FALSE)),
                         !.tables = Put(@, Chars("filteredDeals"), slice20(filtered))]
            ELSE st.results
        deals == Get(bySector.metrics, Chars("deals"))
    IN  IF f # JsUndefined /\ Truthy(f.quarter) /\ deals # JsUndefined
        THEN LET rev == Get(deals.quarterlyRevenue, f.quarter.s)
             IN  [bySector EXCEPT
                     !.metrics = Put(@, Chars("quarterFocus"),
                                     IF rev = JsUndefined THEN Zero ELSE rev)]
        ELSE bySector
applyFilters(p, st) ==
    LET f == p.filters
        bySector ==
            IF f # JsUndefined /\ Truthy(f.sector) /\ st.dealsNorm # JsNull
            THEN LET filtered == SelectSeq(st.dealsNorm.rows,
                                           LAMBDA r : sectorMatches(r, toLowerCase(f.sector.s)))
                 IN  [st.results EXCEPT
                         !.metrics = Put(@, Chars("filteredDeals"),
                                         computeDealsMetrics(filtered, FALSE)),
                         !.tables = Put(@, Chars("filteredDeals"), slice20(filtered))]
            ELSE st.results
        deals == Get(bySector.metrics, Chars("deals"))
    IN  IF f # JsUndefined /\ Truthy(f.quarter) /\ deals # JsUndefined
        THEN LET rev == Get(deals.quarterlyRevenue, f.quarter.s)
             IN  [bySector EXCEPT
                     !.metrics = Put(@, Chars("quarterFocus"),
                                     IF rev = JsUndefined THEN Zero ELSE rev)]
        ELSE bySector

\* Object.values(results.dataQuality)
qualitiesOf(results) == [i \in 1..Len(results.dataQuality) |-> results.dataQuality[i].v]

\* --------------------------------------------------------------------------
\* Calls of the pure helpers
\* --------------------------------------------------------------------------
\* no call in progress / no computeDealsMetrics in progress
CallIdle ==
    /\ fn = "none" /\ raw = JsNull /\ result = NotCalled /\ prev = NotCalled /\ pc = "idle"
DealsIdle ==
    /\ dealRows = <<>> /\ tzWest = FALSE /\ dm = dmStart /\ dmPc = "idle"
    /\ dealsMetrics = JsNull
BoardIdle ==
    /\ board = [name |-> <<>>, columns |-> <<>>, items |-> <<>>]
    /\ cellIdx = 0 /\ nb = nbStart /\ nbPc = "idle" /\ normalized = JsNull
WoIdle ==
    /\ woRows = <<>> /\ woNow = Zero /\ wm = wmStart /\ woPc = "idle" /\ woMetrics = JsNull
CrossIdle ==
    /\ cbDeals = <<>> /\ cbWos = <<>> /\ cb = JsNull /\ cbPc = "idle" /\ crossBoard = JsNull
ConfIdle ==
    /\ cfQualities = <<>> /\ cfPc = "idle" /\ confidence = JsNull
ExecIdle ==
    /\ plan = JsNull /\ env = JsNull /\ exPc = "idle" /\ req = JsNull
    /\ fetched = JsNull /\ ex = JsNull /\ outcome = JsNull
FetchIdle ==
    /\ fbId = JsNull /\ fbReq = JsNull /\ fbSeen = <<>> /\ fbPc = "idle"
    /\ fbReply = JsNull /\ fbResult = JsNull
ChatIdle == sessions = <<>> /\ handlers = <<>>
NonCallIdle ==
    DealsIdle /\ BoardIdle /\ WoIdle /\ CrossIdle
    /\ ConfIdle /\ ExecIdle /\ FetchIdle /\ ChatIdle
NonDealsIdle ==
    CallIdle /\ BoardIdle /\ WoIdle /\ CrossIdle
    /\ ConfIdle /\ ExecIdle /\ FetchIdle /\ ChatIdle
NonBoardIdle ==
    CallIdle /\ DealsIdle /\ WoIdle /\ CrossIdle
    /\ ConfIdle /\ ExecIdle /\ FetchIdle /\ ChatIdle
NonWoIdle ==
    CallIdle /\ DealsIdle /\ BoardIdle /\ CrossIdle
    /\ ConfIdle /\ ExecIdle /\ FetchIdle /\ ChatIdle
NonCrossIdle ==
    CallIdle /\ DealsIdle /\ BoardIdle /\ WoIdle
    /\ ConfIdle /\ ExecIdle /\ FetchIdle /\ ChatIdle
NonConfIdle ==
    CallIdle /\ DealsIdle /\ BoardIdle /\ WoIdle
    /\ CrossIdle /\ ExecIdle /\ FetchIdle /\ ChatIdle
NonExecIdle ==
    CallIdle /\ DealsIdle /\ BoardIdle /\ WoIdle
    /\ CrossIdle /\ ConfIdle /\ FetchIdle /\ ChatIdle
NonFetchIdle ==
    CallIdle /\ DealsIdle /\ BoardIdle /\ WoIdle
    /\ CrossIdle /\ ConfIdle /\ ExecIdle /\ ChatIdle
NonChatIdle ==
    CallIdle /\ DealsIdle /\ BoardIdle /\ WoIdle
    /\ CrossIdle /\ ConfIdle /\ ExecIdle /\ FetchIdle

PadVariants(s) == {s, <<" ">> \o s \o <<" ">>}

DateInputs ==
    LET sep == {"/", "-"}
        mdy == { Chars(m) \o <<a>> \o Chars(d) \o <<b>> \o Chars(y) :
                   m \in {"0", "1", "03", "12", "13", "15"},
                   d \in {"0", "1", "03", "15", "31", "32"},
                   a \in sep, b \in sep, y \in {"2024", "0099", "999", "20245"} }
        iso == { Chars(y) \o <<"-">> \o Chars(m) \o <<"-">> \o Chars(d) \o Chars(t) :
                   y \in {"2024", "0001", "9999"}, m \in {"00", "02", "12", "13"},
                   d \in {"00", "01", "30", "31", "32"},
                   t \in {"", "T10:30Z", "T23:59:59Z"} }
        serial == { Chars(n) : n \in {"0", "30000", "30000.5", "30001", "45366", "45366.5",
                                      "59999", "59999.9", "60000", "100000"} }
        other == { Chars(o) : o \in {"", "   ", "not-a-date", "15 March 2024",
                                     "2024/03/15", "03/15/24", "2024-3-15", "1.2.3"} }
    IN  {JsNull, JsUndefined} \cup
        {JsStr(t) : t \in UNION {PadVariants(x) : x \in mdy \cup iso \cup serial \cup other}}

InitDate ==
    /\ NonCallIdle
    /\ fn = "normalizeDate"
    /\ raw \in DateInputs
    /\ result = NotCalled /\ prev = NotCalled /\ pc = "call"

CallNormalizeDate ==
    /\ fn = "normalizeDate" /\ pc = "call"
    /\ result' = normalizeDate(raw)
    /\ pc' = "returned"
    /\ UNCHANGED <<fn, raw, prev, nonCallVars>>

SpecDate == InitDate /\ [][CallNormalizeDate]_vars

\* ---- canonicalizeSector, applied once and then to its own result ----
\* s with each blank doubled
RECURSIVE doubleBlanks(_)
doubleBlanks(s) ==
    IF s = <<>> THEN <<>>
    ELSE IF Head(s) = " " THEN <<" ", " ">> \o doubleBlanks(Tail(s))
         ELSE <<Head(s)>> \o doubleBlanks(Tail(s))

SectorInputs ==
    LET table == SectorKeys \cup SectorCanon
        other == { Chars(o) : o \in {"Aerospace", "aero  space", "Fin Tech", "constructor",
                                     "__proto__", "", "   ", "oil", "Oil &amp; Gas"} }
        base == table \cup other
    IN  {JsNull, JsUndefined} \cup
        {JsStr(t) : t \in UNION {PadVariants(x) \cup {toUpperCase(x), doubleBlanks(x)} :
                                   x \in base}}

InitSector ==
    /\ NonCallIdle
    /\ fn = "canonicalizeSector"
    /\ raw \in SectorInputs
    /\ result = NotCalled /\ prev = NotCalled /\ pc = "call"

CallCanonicalizeSector ==
    /\ fn = "canonicalizeSector" /\ pc = "call"
    /\ result' = canonicalizeSector(raw)
    /\ pc' = "returned"
    /\ UNCHANGED <<fn, raw, prev, nonCallVars>>

CallCanonicalizeSectorAgain ==
    /\ fn = "canonicalizeSector" /\ pc = "returned"
    /\ prev' = result
    /\ result' = canonicalizeSector(result)
    /\ pc' = "again"
    /\ UNCHANGED <<fn, raw, nonCallVars>>

NextSector == CallCanonicalizeSector \/ CallCanonicalizeSectorAgain
SpecSector == InitSector /\ [][NextSector]_vars

\* ---- normalizeCurrency ----
CurrencyInputs ==
    LET syms == {<<>>, <<"$">>, <<"<rupee>">>, <<"<euro>">>, <<"<pound>">>}
        gaps == {<<>>, <<" ">>}
        amounts == { Chars(a) : a \in {"1,250,000", "50,00,000", "250000", "100.50", "1.",
                                       "0", ".5", "-500", "abc", "12abc", "1.2.3", "",
                                       "--5", "N/A"} }
        codes == { Chars(c) : c \in {"", "USD", "usd", "Inr", "EUR", "gbp", "JPY", "k"} }
    IN  {JsNull, JsUndefined, JsStr(Chars("   "))} \cup
        { JsStr(y \o g \o a \o h \o c) :
            y \in syms, g \in gaps, a \in amounts, h \in gaps, c \in codes }

InitCurrency ==
    /\ NonCallIdle
    /\ fn = "normalizeCurrency"
    /\ raw \in CurrencyInputs
    /\ result = NotCalled /\ prev = NotCalled /\ pc = "call"

CallNormalizeCurrency ==
    /\ fn = "normalizeCurrency" /\ pc = "call"
    /\ result' = normalizeCurrency(raw)
    /\ pc' = "returned"
    /\ UNCHANGED <<fn, raw, prev, nonCallVars>>

SpecCurrency == InitCurrency /\ [][CallNormalizeCurrency]_vars

\* --------------------------------------------------------------------------
\* Properties of the field normalizers
\* --------------------------------------------------------------------------
rawText == trim(String(raw))
IsYMD(v) == v.k = "string" /\ Len(v.s) = 10 /\ ISO_RE(v.s)

\* an ISO-prefixed input with month 1..12 and day 1..31 (date only, or a UTC time)
ValidIsoInput(s) ==
    /\ ISO_RE(s)
    /\ DigitsToInt(SubSeq(s, 6, 7)) \in 1..12
    /\ DigitsToInt(SubSeq(s, 9, 10)) \in 1..31
    /\ Len(s) = 10 \/ isoTimeOk(SubSeq(s, 11, Len(s)))
\* M/D/YYYY or M-D-YYYY with month 1..12 and day 1..31
ValidMdyInput(s) ==
    \E g \in MDY_RE(s) : DigitsToInt(g[1]) \in 1..12 /\ DigitsToInt(g[2]) \in 1..31
\* a bare numeric string n with 30000 < n < 60000
ValidSerialInput(s) ==
    /\ s # <<>> /\ \A i \in 1..Len(s) : IsDigit(s[i]) \/ s[i] = "."
    /\ Number(s).k = "number"
    /\ DecLess(DecInt(30000), Number(s).n) /\ DecLess(Number(s).n, DecInt(60000))

\* C4: normalizeDate returns a YYYY-MM-DD string for every valid ISO-prefixed,
\* M/D/YYYY (month 1..12, day 1..31) and in-range serial input, and null for
\* every other input.
C4_NormalizeDateTotal ==
    (fn = "normalizeDate" /\ pc = "returned") =>
        IF ~IsBlankRaw(raw) /\ (ValidIsoInput(rawText) \/ ValidMdyInput(rawText)
                                 \/ ValidSerialInput(rawText))
        THEN IsYMD(result)
        ELSE result = JsNull

StrippedNumber == parseFloat(keepChars(removeChars(rawText, {","}),
                                       {"0", "1", "2", "3", "4", "5", "6", "7", "8", "9", ".", "-"}))
NoStructuredMatch == ~IsBlankRaw(raw) /\ CURRENCY_RE(removeChars(rawText, {","})) = {}

\* C5: without a structured match on a non-empty input, normalizeCurrency returns
\* {the number recovered from the digits, dots and minus signs, "UNKNOWN"}, and
\* {null, null} when no number is recovered.
C5_FallbackResult ==
    (fn = "normalizeCurrency" /\ pc = "returned" /\ NoStructuredMatch) =>
        IF StrippedNumber.k = "number"
        THEN result = [value |-> StrippedNumber, currency |-> JsStr(Chars("UNKNOWN"))]
        ELSE result = NullMoney

\* the groups of a recognized amount
Recognized == IF IsBlankRaw(raw) THEN {} ELSE CURRENCY_RE(removeChars(rawText, {","}))

\* C6: a recognized amount is returned without its thousands separators, tagged
\* by its trailing code (any letter case), else by its leading symbol, else INR;
\* a blank input yields {null, null}.
C6_RecognizedAmount ==
    (fn = "normalizeCurrency" /\ pc = "returned") =>
        /\ IsBlankRaw(raw) => result = NullMoney
        /\ \A g \in Recognized :
            /\ result.value = Number(g.num)
            /\ result.currency.k = "string" /\ result.currency.s \in CurrencyCodes
            /\ g.code # <<>> => result.currency.s = toUpperCase(g.code)
            /\ (g.code = <<>> /\ g.sym # <<>>) =>
                   result.currency.s = symbolCurrency(g.sym[1])
            /\ (g.code = <<>> /\ g.sym = <<>>) => result.currency.s = Chars("INR")

\* an amount with thousands separators, a symbol and a lower-case code of another
\* currency has been normalized
C6_Witness ==
    /\ fn = "normalizeCurrency" /\ pc = "returned"
    /\ raw = JsStr(<<"$">> \o Chars("1,250,000 gbp"))
    /\ result = [value |-> JsNum(DecInt(1250000)), currency |-> JsStr(Chars("GBP"))]

\* C7: canonicalizeSector is idempotent.
C7_Idempotent ==
    (fn = "canonicalizeSector" /\ pc = "again") => result = prev

\* the table keys that the input is a case or whitespace variant of
VariantKeys == {k \in SectorKeys : toLowerCase(collapseSpaces(rawText)) = k}
canonOf(k) == SECTOR_MAP[CHOOSE i \in DOMAIN SECTOR_MAP : SECTOR_MAP[i][1] = k][2]

\* C8: every case or whitespace variant of a table key (leading, trailing, extra
\* internal whitespace) yields the key's canonical name; an unmatched non-empty
\* input is returned trimmed; a blank input yields null.
C8_SectorLookup ==
    (fn = "canonicalizeSector" /\ pc = "returned") =>
        IF IsBlankRaw(raw) THEN result = JsNull
        ELSE IF VariantKeys # {} THEN \A k \in VariantKeys : result = JsStr(canonOf(k))
        ELSE result = JsStr(rawText)

\* ---- findCol ----
MaxKeys == 3

TitlePool ==
    { Chars(t) : t \in {"Deal Stage", "stage", "Stage (Deal Status)", "Status",
                        "Masked Deal value (INR)", "Value"} }
KeyLists == UNION { [1..n -> TitlePool] : n \in 0..MaxKeys }
rowOfKeys(keys) == [i \in 1..Len(keys) |-> [k |-> keys[i], v |-> JsNull]]

\* the candidate lists of computeDealsMetrics, and two with a later exact match
CandidateLists ==
    LET l(xs) == [i \in 1..Len(xs) |-> Chars(xs[i])] IN
    { l(<<"masked deal value", "deal value", "value", "amount", "deal_value", "price",
          "revenue">>),
      l(<<"deal stage", "stage", "deal_stage">>),
      l(<<"deal status", "status">>),
      l(<<"sector/service", "sector", "industry", "vertical">>),
      l(<<"closure probability", "probability", "win probability">>),
      l(<<"deal", "STAGE">>),
      l(<<"stat", "value", "status">>) }

InitFindCol ==
    /\ NonCallIdle
    /\ fn = "findCol"
    /\ \E keys \in KeyLists, cands \in CandidateLists, n \in 0..2 :
          raw = [rows |-> [i \in 1..n |-> IF i = 1 THEN rowOfKeys(keys)
                                          ELSE rowOfKeys(<<Chars("Status")>>)],
                 candidates |-> cands]
    /\ result = NotCalled /\ prev = NotCalled /\ pc = "call"

CallFindCol ==
    /\ fn = "findCol" /\ pc = "call"
    /\ result' = findCol(raw.rows, raw.candidates)
    /\ pc' = "returned"
    /\ UNCHANGED <<fn, raw, prev, nonCallVars>>

SpecFindCol == InitFindCol /\ [][CallFindCol]_vars

firstKeys == ObjectKeys(raw.rows[1])
ExactCands ==
    {i \in 1..Len(raw.candidates) :
        \E j \in 1..Len(firstKeys) : toLowerCase(firstKeys[j]) = toLowerCase(raw.candidates[i])}
SubstringCands ==
    {i \in 1..Len(raw.candidates) :
        \E j \in 1..Len(firstKeys) :
            includes(toLowerCase(firstKeys[j]), toLowerCase(raw.candidates[i]))}
Least(S) == CHOOSE i \in S : \A j \in S : i <= j
\* v is the first title equal to c / the first title containing c
IsFirstTitleEqual(v, c) ==
    \E j \in 1..Len(firstKeys) :
        /\ v = JsStr(firstKeys[j]) /\ toLowerCase(firstKeys[j]) = c
        /\ \A h \in 1..(j - 1) : toLowerCase(firstKeys[h]) # c
IsFirstTitleContaining(v, c) ==
    \E j \in 1..Len(firstKeys) :
        /\ v = JsStr(firstKeys[j]) /\ includes(toLowerCase(firstKeys[j]), c)
        /\ \A h \in 1..(j - 1) : ~includes(toLowerCase(firstKeys[h]), c)

\* C9: findCol returns the first title equal (case-insensitively) to the earliest
\* candidate that equals some title; only when no candidate equals a title, the
\* first title containing the earliest candidate contained in some title; null
\* when rows is empty or nothing matches.
C9_FindColTwoPass ==
    (fn = "findCol" /\ pc = "returned") =>
        IF Len(raw.rows) = 0 THEN result = JsNull
        ELSE IF ExactCands # {}
             THEN IsFirstTitleEqual(result, toLowerCase(raw.candidates[Least(ExactCands)]))
        ELSE IF SubstringCands # {}
             THEN IsFirstTitleContaining(result,
                      toLowerCase(raw.candidates[Least(SubstringCands)]))
        ELSE result = JsNull

\* an earlier candidate occurs only inside a title, a later one equals a title,
\* and the title of the later one is returned
C9_Witness ==
    /\ fn = "findCol" /\ pc = "returned" /\ Len(raw.rows) > 0
    /\ ExactCands # {} /\ SubstringCands # {}
    /\ Least(SubstringCands) < Least(ExactCands)
    /\ result.k = "string"
    /\ toLowerCase(result.s) = toLowerCase(raw.candidates[Least(ExactCands)])
    /\ \E j \in 1..Len(firstKeys) :
          /\ includes(toLowerCase(firstKeys[j]),
                      toLowerCase(raw.candidates[Least(SubstringCands)]))
          /\ \A h \in 1..Len(firstKeys) :
                includes(toLowerCase(firstKeys[h]), toLowerCase(result.s)) => j < h

\* ---- computeDealsMetrics over rows of a normalized deals board ----
MaxDeals == 3

\* the columns of the board: title and the part of a deal it holds
DealHeaders ==
    LET h(xs) == [i \in 1..Len(xs) |-> [title |-> Chars(xs[i][1]), part |-> xs[i][2]]] IN
    { h(<< <<"Deal Stage", "stage">>, <<"Deal Status", "status">>,
           <<"Masked Deal value", "value">>, <<"Sector/service", "sector">>,
           <<"Tentative Close Date", "date">>, <<"Closure Probability", "prob">> >>),
      h(<< <<"Stage", "stage">>, <<"Amount", "value">> >>),
      h(<< <<"Status", "status">> >>),
      h(<< <<"Stage / Status", "stage">>, <<"Value", "value">> >>) }

DealParts ==
    LET t(stage, status, value, sector, date, prob) ==
            [stage |-> stage, status |-> status, value |-> value, sector |-> sector,
             date |-> date, prob |-> prob]
        S(x) == JsStr(Chars(x))
    IN  { t(S("Closed Won"), S("Won"), JsNum(DecInt(100)), S("mining"), S("2024-04-01"),
            S("High")),
          t(S("Negotiation"), S("Open"), JsNum(Dec(2505, 1)), S("Mines"), S("2024-12-31"),
            S("Low")),
          t(JsNull, S("Closed Lost"), JsNull, JsNull, JsNull, JsNull),
          t(S("Work Completed"), JsNull, JsNum(DecInt(100)), S("Aerospace"),
            S("2024-01-01"), JsNull),
          t(S("Proposal"), S("closed - WON"), JsNum(Zero), S("mining"), JsNull, S("High")) }

dealRow(header, parts) ==
    [i \in 1..Len(header) |-> [k |-> header[i].title, v |-> parts[header[i].part]]]
headerOf(row) == ObjectKeys(row)


InitDeals ==
    /\ NonDealsIdle
    /\ dealRows = <<>>
    /\ tzWest \in BOOLEAN
    /\ dm = dmStart
    /\ dmPc = "loop"
    /\ dealsMetrics = JsNull

\* for (const r of rows) { ... }: the next row of the board is taken
DealsLoopRow ==
    /\ dmPc = "loop"
    /\ Len(dealRows) < MaxDeals
    /\ \E header \in DealHeaders, parts \in DealParts :
          /\ dealRows # <<>> => ObjectKeys(dealRows[1]) = ObjectKeys(dealRow(header, parts))
          /\ dealRows' = Append(dealRows, dealRow(header, parts))
          /\ dm' = dealsLoop(dealRows', dealRow(header, parts), tzWest, dm)
    /\ UNCHANGED <<tzWest, dmPc, dealsMetrics, nonDealsVars>>

\* the rows are exhausted: clamp and return
DealsReturn ==
    /\ dmPc = "loop"
    /\ dealsMetrics' = dealsReturn(dm)
    /\ dmPc' = "done"
    /\ UNCHANGED <<dealRows, tzWest, dm, nonDealsVars>>

NextDeals == DealsLoopRow \/ DealsReturn
SpecDeals == InitDeals /\ [][NextDeals]_vars

WonByStage == {i \in 1..Len(dealRows) : \E j \in 1..Len(dealRows[i]) :
                  /\ findCol(dealRows, dealCandidates.stage) = JsStr(dealRows[i][j].k)
                  /\ stageWonRe(dealRows[i][j].v)}
WonByStatus == {i \in 1..Len(dealRows) : \E j \in 1..Len(dealRows[i]) :
                  /\ findCol(dealRows, dealCandidates.status) = JsStr(dealRows[i][j].k)
                  /\ statusWonRe(dealRows[i][j].v)}

MaxItems == 2

Col(id, title, type) == [id |-> Chars(id), title |-> Chars(title), type |-> Chars(type)]
\* a cell { id, text, value, type, column: { title } }; "" for an absent type or
\* column title
CellOf(id, text, value, type, title) ==
    [id |-> Chars(id), text |-> text, value |-> value, type |-> Chars(type),
     column |-> Chars(title)]
T(x) == JsStr(Chars(x))

\* the board of the normalizer's tests, and a board with two columns of one title
DealsBoard ==
    [name |-> Chars("Test Board"),
     columns |-> << Col("status", "Status", "status"), Col("date4", "Close Date", "date"),
                    Col("numbers", "Deal Value", "numeric") >>]
TwinBoard ==
    [name |-> Chars("Twins"),
     columns |-> << Col("status", "Status", "status"), Col("status_1", "Status", "text") >>]

ItemsOf(b) ==
    LET st(text, value) == CellOf("status", text, value, "status", "Status")
        dt(text, value) == CellOf("date4", text, value, "date", "Close Date")
        nm(text, value) == CellOf("numbers", text, value, "numeric", "Deal Value")
        tw(text) == CellOf("status_1", text, NoValue, "text", "Status")
        it(name, cells) == [name |-> Chars(name), column_values |-> cells]
    IN  IF b = DealsBoard
        THEN { it("Deal Alpha", << st(T("Won"), NoValue), dt(T("2024-06-15"), NoValue),
                                   nm(JsStr(<<"<rupee>">> \o Chars("1,00,000")), NoValue) >>),
               it("Deal Beta", << st(T(""), NoValue), dt(T(""), NoValue),
                                  nm(T("$50,000"), NoValue) >>),
               it("Only status", << st(T("Open"), NoValue) >>),
               it("No cells", << >>),
               it("From values",
                  << st(T(""), [JsonObject EXCEPT !.label = T("Won")]),
                     dt(JsNull, [JsonObject EXCEPT !.date = T("2024-06-15")]),
                     nm(T("  "), InvalidJson) >>),
               it("Unparseable", << st(T("  In   progress "), NoValue), dt(T("soon"), NoValue),
                                    nm(T("abc"), NoValue) >>),
               it("Bare cells",
                  << CellOf("numbers", T("250000"), NoValue, "", ""),
                     CellOf("extra", JsNull, JsonNull, "", "") >>),
               it("Invoiced",
                  << CellOf("date5", T("2024-06-15"), NoValue, "date", "Invoice Date"),
                     CellOf("text1", T("$1,200"), NoValue, "text", "Billed Date"),
                     CellOf("text2", T("2024-07-01"), NoValue, "text", "Due date") >>) }
        ELSE { it("Both blank", << st(T(""), NoValue), tw(T(" ")) >>),
               it("Second set", << st(JsNull, NoValue), tw(T("Done")) >>),
               it("First set", << st(T("Won"), NoValue), tw(T("")) >>) }

InitBoard ==
    /\ NonBoardIdle
    /\ \E b \in {DealsBoard, TwinBoard} :
          board = [name |-> b.name, columns |-> b.columns, items |-> <<>>]
    /\ cellIdx = 0 /\ nb = nbStart /\ nbPc = "items" /\ normalized = JsNull

boardOf == IF board.name = DealsBoard.name THEN DealsBoard ELSE TwinBoard
currentItem == board.items[Len(board.items)]

\* for (const item of items): the next item; const row = { _id, _name }
TakeItem ==
    /\ nbPc = "items"
    /\ Len(board.items) < MaxItems
    /\ \E item \in ItemsOf(boardOf) :
          LET id == IntToDigits(Len(board.items) + 1) IN
          /\ board' = [board EXCEPT !.items =
                          Append(@, [id |-> id, name |-> item.name,
                                     column_values |-> item.column_values])]
          /\ nb' = [nb EXCEPT !.row = << [k |-> Chars("_id"), v |-> JsStr(id)],
                                         [k |-> Chars("_name"), v |-> JsStr(item.name)] >>]
    /\ cellIdx' = 0
    /\ nbPc' = "cells"
    /\ UNCHANGED <<normalized, nonBoardVars>>

\* for (const cv of item.column_values): the next cell
NormalizeCell ==
    /\ nbPc = "cells"
    /\ cellIdx < Len(currentItem.column_values)
    /\ cellIdx' = cellIdx + 1
    /\ nb' = normalizeCell(board.columns, nb, currentItem.column_values[cellIdx'])
    /\ UNCHANGED <<board, nbPc, normalized, nonBoardVars>>

\* rows.push(row)
PushRow ==
    /\ nbPc = "cells"
    /\ cellIdx = Len(currentItem.column_values)
    /\ nb' = [nb EXCEPT !.rows = Append(@, nb.row)]
    /\ nbPc' = "items"
    /\ UNCHANGED <<board, cellIdx, normalized, nonBoardVars>>

\* the items are exhausted
NormalizeReturn ==
    /\ nbPc = "items"
    /\ normalized' = normalizeReturn(board.name, nb)
    /\ nbPc' = "done"
    /\ UNCHANGED <<board, cellIdx, nb, nonBoardVars>>

NextBoard == TakeItem \/ NormalizeCell \/ PushRow \/ NormalizeReturn
SpecBoard == InitBoard /\ [][NextBoard]_vars

\* the cells of item i that resolve to the title
CellsFor(i, title) ==
    {j \in 1..Len(board.items[i].column_values) :
        cellTitle(board.items[i].column_values[j]) = title}

\* C1: every column title of the board is a key of every normalized row, null
\* when the item has no cell for it -- also for items whose column_values omit
\* some of the board's columns.
C1_EveryColumnKeyed ==
    nbPc = "done" =>
        \A i \in 1..Len(normalized.rows), c \in 1..Len(board.columns) :
            /\ HasKey(normalized.rows[i], board.columns[c].title)
            /\ CellsFor(i, board.columns[c].title) = {} =>
                   Get(normalized.rows[i], board.columns[c].title) = JsNull

RECURSIVE SumCounts(_)
SumCounts(obj) == IF obj = <<>> THEN 0 ELSE Head(obj).v + SumCounts(Tail(obj))

\* C2: missingCounts[c] <= totalRows for every title c, and the sum of the
\* missingCounts is at most totalRows times the number of board columns -- also
\* when two cells of one item resolve to the same title.
C2_MissingBounded ==
    nbPc = "done" =>
        LET dq == normalized.dataQuality IN
        /\ \A e \in 1..Len(dq.missingCounts) : dq.missingCounts[e].v <= dq.totalRows
        /\ SumCounts(dq.missingCounts) <= dq.totalRows * Len(board.columns)

\* blank in its plain text and in its structured value
CellBlank(cv) ==
    /\ cv.text.k = "string" => trim(cv.text.s) = <<>>
    /\ \/ cv.value.j = "none"
       \/ ~Truthy(extractFromValue(cv.value, cellType(board.columns, cv)))
       \/ trim(extractFromValue(cv.value, cellType(board.columns, cv)).s) = <<>>
CountOf(obj, title) == IF HasKey(obj, title) THEN Get(obj, title) ELSE 0
\* the blank cells, over all items, that resolve to the title
BlankCells(title) ==
    UNION {{<<i, j>> : j \in {c \in CellsFor(i, title) :
                                 CellBlank(board.items[i].column_values[c])}} :
           i \in 1..Len(board.items)}

\* C3: normalizeBoard returns one row per item, in item order, and totalRows is
\* their number; for each cell blank in its text and in its value the row's
\* value for the cell's title is null, and missingCounts of the title went up by
\* exactly one for it.
C3_NeverDropsRow ==
    nbPc = "done" =>
        /\ Len(normalized.rows) = Len(board.items)
        /\ normalized.dataQuality.totalRows = Len(board.items)
        /\ \A i \in 1..Len(board.items) :
              /\ Get(normalized.rows[i], Chars("_id")) = JsStr(board.items[i].id)
              /\ Get(normalized.rows[i], Chars("_name")) = JsStr(board.items[i].name)
              /\ \A j \in 1..Len(board.items[i].column_values) :
                    LET cv == board.items[i].column_values[j] IN
                    CellBlank(cv) =>
                        /\ Get(normalized.rows[i], cellTitle(cv)) = JsNull
                        /\ CountOf(normalized.dataQuality.missingCounts, cellTitle(cv))
                               = Cardinality(BlankCells(cellTitle(cv)))

\* ---- computeWorkOrdersMetrics over rows of a normalized work-orders board ----
MaxWorkOrders == 2

\* the columns of the board: title and the part of a work order it holds
WoHeaders ==
    LET h(xs) == [i \in 1..Len(xs) |-> [title |-> Chars(xs[i][1]), part |-> xs[i][2]]] IN
    { h(<< <<"Execution Status", "status">>, <<"Probable Start Date", "start">>,
           <<"Probable End Date", "end">>, <<"Amount in Rupees", "amount">>,
           <<"Collected Amount", "collected">>, <<"Sector", "sector">>,
           <<"Nature of Work", "nature">> >>),
      h(<< <<"Status", "status">>, <<"Due Date", "end">> >>),
      h(<< <<"Billed Value", "amount">> >>) }

WoParts ==
    LET t(status, start, end, amount, collected, sector, nature) ==
            [status |-> status, start |-> start, end |-> end, amount |-> amount,
             collected |-> collected, sector |-> sector, nature |-> nature]
        S(x) == JsStr(Chars(x))
    IN  { t(S("Completed"), S("2023-12-01"), S("2024-01-01"), JsNum(DecInt(100)),
            JsNum(DecInt(50)), S("mining"), S("Survey")),
          t(S("Not Started"), JsNull, S("2024-01-01"), JsNull, JsNum(DecInt(50)),
            JsNull, JsNull),
          t(S("In Progress"), S("2024-07-01"), S("2024-06-15"), JsNum(Dec(2505, 1)),
            JsNull, S("Mines"), S("Survey")),
          t(S("On Hold"), S("2023-12-01"), S("TBD"), JsNum(DecInt(0 - 100)), JsNum(Zero),
            S("Aerospace"), JsNull),
          t(S("Executed & Closed"), S("2023-12-01"), S("2025-01-01"), JsNum(DecInt(100)),
            JsNum(DecInt(100)), S("mining"), S("Mapping")),
          t(JsNull, S("TBD"), S("2024-01-01"), JsNull, JsNull, JsNull, JsNull) }

woRow(header, parts) ==
    [i \in 1..Len(header) |-> [k |-> header[i].title, v |-> parts[header[i].part]]]

\* now: the midnight that begins 2024-06-15, or the noon of that day
WoNows == {DecInt(DaysFromCivil(2024, 6, 15)), Dec(DaysFromCivil(2024, 6, 15) * 10 + 5, 1)}

InitWo ==
    /\ NonWoIdle
    /\ woRows = <<>>
    /\ woNow \in WoNows
    /\ wm = wmStart
    /\ woPc = "loop"
    /\ woMetrics = JsNull

\* for (const r of rows) { ... }: the next row of the board is taken
WoLoopRow ==
    /\ woPc = "loop"
    /\ Len(woRows) < MaxWorkOrders
    /\ \E header \in WoHeaders, parts \in WoParts :
          /\ woRows # <<>> => ObjectKeys(woRows[1]) = ObjectKeys(woRow(header, parts))
          /\ woRows' = Append(woRows, woRow(header, parts))
          /\ wm' = woLoop(woRows', woRow(header, parts), woNow, wm)
    /\ UNCHANGED <<woNow, woPc, woMetrics, nonWoVars>>

\* the rows are exhausted: the totals and the returned record
WoReturn ==
    /\ woPc = "loop"
    /\ woMetrics' = woReturn(wm)
    /\ woPc' = "done"
    /\ UNCHANGED <<woRows, woNow, wm, nonWoVars>>

NextWo == WoLoopRow \/ WoReturn
SpecWo == InitWo /\ [][NextWo]_vars

\* the two aggregations, one of them called
InitMetrics == InitDeals \/ InitWo
NextMetrics == NextDeals \/ NextWo
SpecMetrics == InitMetrics /\ [][NextMetrics]_vars

\* of row i of the work orders: its execution status text and its end date
woStatusOf(i) ==
    OrElse(Cell(woRows[i], findCol(woRows, woCandidates.execStatus)), Unknown)
WoCompleted == {i \in 1..Len(woRows) : completedRe(woStatusOf(i))}
WoNotStarted == {i \in 1..Len(woRows) : notStartedRe(woStatusOf(i))} \ WoCompleted
WoOngoing ==
    {i \in 1..Len(woRows) : ongoingRe(woStatusOf(i))} \ (WoCompleted \cup WoNotStarted)
WoOtherOpen == (1..Len(woRows)) \ (WoCompleted \cup WoNotStarted \cup WoOngoing)
\* the rows with a start and an end that both resolve to dates
WoTimed ==
    {i \in 1..Len(woRows) :
        /\ dateOf(Cell(woRows[i], findCol(woRows, woCandidates.start))).k = "number"
        /\ dateOf(Cell(woRows[i], findCol(woRows, woCandidates.end))).k = "number"}

\* C11: a ratio whose denominator is zero defaults: avgDealSize = closeRate = 0
\* for no deals, completionPct = 0 for no work orders, collectionRate = 0 when
\* the summed amount is 0, avgCompletionDays null when no row has a start/end
\* pair; no quotient is taken over zero.
C11_RatiosDefault ==
    /\ dmPc = "done" =>
          /\ dealRows = <<>> => /\ dealsMetrics.avgDealSize = RatioZero
                                /\ dealsMetrics.closeRate = RatioZero
          /\ dealsMetrics.avgDealSize.den # 0
          /\ dealsMetrics.closeRate.den # 0
    /\ woPc = "done" =>
          /\ woRows = <<>> => woMetrics.completionPct = RatioZero
          /\ woMetrics.completionPct.den # 0
          /\ IF woMetrics.totalAmount = Zero
             THEN woMetrics.collectionRate = RatioZero
             ELSE /\ woMetrics.collectionRate.den = woMetrics.totalAmount
                  /\ woMetrics.collectionRate.den.m # 0
          /\ WoTimed = {} => woMetrics.avgCompletionDays = JsNull
          /\ woMetrics.avgCompletionDays # JsNull => woMetrics.avgCompletionDays.den > 0

\* work orders with money collected whose amounts sum to 0, none with a
\* start/end pair
C11_Witness ==
    /\ woPc = "done" /\ Len(woRows) = 2
    /\ woMetrics.totalAmount = Zero /\ woMetrics.totalCollected.m # 0
    /\ woMetrics.collectionRate = RatioZero
    /\ woMetrics.completionPct = Ratio(Zero, 2)
    /\ WoTimed = {} /\ woMetrics.avgCompletionDays = JsNull

\* C12: every work-order row falls in exactly one of completed, not-started,
\* ongoing, other-open: closed = completed, open = notStarted + ongoing + the
\* other-open rows, and total = open + closed is the number of rows.
C12_OneClassPerRow ==
    woPc = "done" =>
        /\ woMetrics.closed = woMetrics.completed
        /\ woMetrics.completed = Cardinality(WoCompleted)
        /\ woMetrics.notStarted = Cardinality(WoNotStarted)
        /\ woMetrics.ongoing = Cardinality(WoOngoing)
        /\ woMetrics.open = woMetrics.notStarted + woMetrics.ongoing
                               + Cardinality(WoOtherOpen)
        /\ woMetrics.total = woMetrics.open + woMetrics.closed
        /\ woMetrics.total = Len(woRows)

\* a row that matches two of the patterns, counted once, and a row not started
C12_Witness ==
    /\ woPc = "done" /\ Len(woRows) = 2
    /\ \E i \in WoCompleted : ongoingRe(woStatusOf(i))
    /\ Cardinality(WoNotStarted) = 1
    /\ woMetrics.open = 1 /\ woMetrics.closed = 1

\* C13: overdue counts every open-classified row (not-started, ongoing or
\* other-open) whose end date resolves and lies before now, and no other row;
\* hence overdue <= open.
C13_OverdueOfOpen ==
    woPc = "done" =>
        /\ woMetrics.overdue =
              Cardinality({i \in WoNotStarted \cup WoOngoing \cup WoOtherOpen :
                              pastDue(woRows[i], findCol(woRows, woCandidates.end), woNow)})
        /\ woMetrics.overdue <= woMetrics.open

\* ---- crossBoardAnalysis over the rows of a deals and a work-orders board ----
MaxLinkRows == 2

\* deals: the item name, the sector cell and the value cell
LinkDeals ==
    LET t(name, sector, value) == [name |-> Chars(name), sector |-> sector, value |-> value]
        S(x) == JsStr(Chars(x))
    IN  { t("Acme Solar Rollout", S("Energy"), JsNum(DecInt(100))),
          t("AB", S("Mining"), JsNum(DecInt(500))),
          t("Mining Co", JsNull, JsNull),
          t("Acme", S("Mining"), JsNum(DecInt(50))) }
\* a deals board whose only sector-like column holds amounts
RevenueDeals ==
    { [name |-> Chars("Acme"), sector |-> JsNum(DecInt(100)), value |-> JsNull] }
\* work orders: the item name, a text cell and the execution status
LinkWos ==
    LET t(name, notes, status) == [name |-> name, notes |-> notes, status |-> status]
        S(x) == JsStr(Chars(x))
    IN  { t(Chars("Acme Solar ") \o EmDash \o Chars(" Phase 1"), JsNull, S("Ongoing")),
          t(Chars("Solar"), S("abc for Mining Co"), S("Completed")),
          t(Chars("Drone survey AB"), S("mining belt"), S("Not Started")) }

\* the lists of at most n elements of a set
RECURSIVE ListsUpTo(_, _)
ListsUpTo(set, n) ==
    IF n = 0 THEN {<<>>}
    ELSE ListsUpTo(set, n - 1)
         \cup {Append(l, x) : l \in {k \in ListsUpTo(set, n - 1) : Len(k) = n - 1}, x \in set}

\* the rows normalizeBoard makes of them: _id, _name, then a key per column
linkDealRow(d, i, sectorTitle) ==
    << [k |-> Chars("_id"), v |-> JsStr(IntToDigits(i))],
       [k |-> Chars("_name"), v |-> JsStr(d.name)],
       [k |-> Chars(sectorTitle), v |-> d.sector],
       [k |-> Chars("Deal Value"), v |-> d.value] >>
linkWoRow(w, i) ==
    << [k |-> Chars("_id"), v |-> JsStr(IntToDigits(i))],
       [k |-> Chars("_name"), v |-> JsStr(w.name)],
       [k |-> Chars("Notes"), v |-> w.notes],
       [k |-> Chars("Execution Status"), v |-> w.status] >>
LinkDealLists ==
    {[i \in 1..Len(l) |-> linkDealRow(l[i], i, "Sector")] : l \in ListsUpTo(LinkDeals, MaxLinkRows)}
    \cup {[i \in 1..Len(l) |-> linkDealRow(l[i], i, "Sector Revenue")] :
            l \in ListsUpTo(RevenueDeals, MaxLinkRows)}
LinkWoLists ==
    {[i \in 1..Len(l) |-> linkWoRow(l[i], i)] : l \in ListsUpTo(LinkWos, MaxLinkRows)}
\* the evaluation time of the work-order metrics passed in
LinkNow == DecInt(DaysFromCivil(2024, 6, 15))

InitCross ==
    /\ NonCrossIdle
    /\ cbDeals \in LinkDealLists
    /\ cbWos \in LinkWoLists
    /\ cb = JsNull
    /\ cbPc = "call"
    /\ crossBoard = JsNull

CallCrossBoardAnalysis ==
    /\ cbPc = "call"
    /\ cb' = [linkedWOs |-> linkedWOs(cbDeals, cbWos),
              sectorLinkedWOs |-> IF sectorThrows(cbDeals) THEN JsUndefined
                                  ELSE sectorLinkedWOs(cbDeals, cbWos)]
    /\ crossBoard' = crossBoardAnalysis(cbDeals, cbWos, computeDealsMetrics(cbDeals, FALSE),
                                        computeWorkOrdersMetrics(cbWos, LinkNow))
    /\ cbPc' = "done"
    /\ UNCHANGED <<cbDeals, cbWos, nonCrossVars>>

SpecCross == InitCross /\ [][CallCrossBoardAnalysis]_vars

\* the call returned a record
CrossReturned == cbPc = "done" /\ "linkedWorkOrders" \in DOMAIN crossBoard
nameOf(r) == String(Get(r, Chars("_name")))
\* work order j: some deal's name of 3 characters or more is in its name, holds
\* its name, or is in its text
NameLinked(j) ==
    \E i \in 1..Len(cbDeals) :
        /\ Len(nameOf(cbDeals[i])) >= 3
        /\ \/ includes(toLowerCase(nameOf(cbWos[j])), toLowerCase(nameOf(cbDeals[i])))
           \/ includes(toLowerCase(nameOf(cbDeals[i])), toLowerCase(nameOf(cbWos[j])))
           \/ includes(allText(cbWos[j]), toLowerCase(nameOf(cbDeals[i])))
\* work order j: its text holds the sector of some deal
SectorLinked(j) ==
    \E i \in 1..Len(cbDeals) :
        LET sec == Get(cbDeals[i], Chars("Sector")) IN
        Truthy(sec) /\ includes(allText(cbWos[j]), toLowerCase(String(sec)))

\* C14: with a deal named "Acme Solar Rollout" and a work order named
\* "Acme Solar <emdash> Phase 1", the linked count is at least 1.
C14_AcmeSolarLinked ==
    (/\ cbPc = "done"
     /\ \E i \in 1..Len(cbDeals) : nameOf(cbDeals[i]) = Chars("Acme Solar Rollout")
     /\ \E j \in 1..Len(cbWos) :
           nameOf(cbWos[j]) = Chars("Acme Solar ") \o EmDash \o Chars(" Phase 1"))
    => /\ CrossReturned
       /\ crossBoard.linkedWorkOrders >= 1

\* C15: the linked count is the larger of the number of name-linked and the
\* number of sector-linked work orders, not their sum or union; hence
\* sectorLinkedWorkOrders <= linkedWorkOrders <= number of work orders.
C15_LinkedIsMax ==
    CrossReturned =>
        LET byName == Cardinality({j \in 1..Len(cbWos) : NameLinked(j)})
            bySector == Cardinality({j \in 1..Len(cbWos) : SectorLinked(j)})
        IN  /\ crossBoard.linkedWorkOrders = IF byName > bySector THEN byName ELSE bySector
            /\ crossBoard.sectorLinkedWorkOrders = bySector
            /\ crossBoard.sectorLinkedWorkOrders <= crossBoard.linkedWorkOrders
            /\ crossBoard.linkedWorkOrders <= Len(cbWos)

\* one work order linked by name, two by sector, one of them by both
C15_Witness ==
    /\ CrossReturned /\ Len(cbWos) = 2
    /\ Cardinality({j \in 1..Len(cbWos) : NameLinked(j)}) = 1
    /\ Cardinality({j \in 1..Len(cbWos) : SectorLinked(j)}) = 2
    /\ crossBoard.linkedWorkOrders = 2

\* C16: a work order is name-linked exactly when some deal whose name has 3
\* characters or more is, ignoring case, in its name, holds its name, or is in
\* the joined text of its string cells; a shorter deal name links nothing.
C16_NameLinkedExactly ==
    cbPc = "done" =>
        /\ cb.linkedWOs = SelectSeq(cbWos, LAMBDA r : \E j \in 1..Len(cbWos) :
                                              cbWos[j] = r /\ NameLinked(j))
        /\ (\A i \in 1..Len(cbDeals) : Len(nameOf(cbDeals[i])) < 3) => cb.linkedWOs = <<>>

\* a work order linked only through its text, and one whose name holds the
\* two-letter name of a deal and is not linked
C16_Witness ==
    /\ cbPc = "done" /\ Len(cb.linkedWOs) = 1 /\ Len(cbWos) = 2
    /\ \E i \in 1..Len(cbDeals), j \in 1..Len(cbWos) :
          /\ Len(nameOf(cbDeals[i])) < 3
          /\ includes(toLowerCase(nameOf(cbWos[j])), toLowerCase(nameOf(cbDeals[i])))
          /\ ~NameLinked(j)
    /\ \E i \in 1..Len(cbDeals), j \in 1..Len(cbWos) :
          /\ NameLinked(j)
          /\ includes(allText(cbWos[j]), toLowerCase(nameOf(cbDeals[i])))
          /\ ~includes(toLowerCase(nameOf(cbWos[j])), toLowerCase(nameOf(cbDeals[i])))
          /\ ~includes(toLowerCase(nameOf(cbDeals[i])), toLowerCase(nameOf(cbWos[j])))

\* ---- computeConfidence over the data-quality reports of the two boards ----
MaxReportRows == 2

\* the missingCounts of a board of n rows: a count of 1..n+1 for some of two titles
\* (a title given to two columns can be counted twice in a row)
ReportCounts(n) ==
    LET e(title, c) == [k |-> Chars(title), v |-> c] IN
    {<<>>}
    \cup {<<e("Status", c)>> : c \in 1..(n + 1)}
    \cup {<<e("Close Date", c)>> : c \in 1..n}
    \cup {<<e("Status", c), e("Close Date", c2)>> : c \in 1..(n + 1), c2 \in 1..n}
ReportWarnings ==
    LET w == Chars("Unparseable date \"TBD\" in column \"Close Date\"") IN
    {<<>>, <<w, w, w>>, <<w, w, w, w>>}
Reports ==
    {[totalRows |-> 0, missingCounts |-> <<>>, currencyTypes |-> <<>>, warnings |-> <<>>]}
    \cup {[totalRows |-> n, missingCounts |-> mc, currencyTypes |-> <<>>, warnings |-> w] :
            n \in 1..MaxReportRows, mc \in UNION {ReportCounts(k) : k \in 1..MaxReportRows},
            w \in ReportWarnings}

InitConf ==
    /\ NonConfIdle
    /\ cfQualities \in {<<d, w>> : d \in Reports \cup {JsUndefined},
                                   w \in Reports \cup {JsUndefined}}
    /\ \A i \in 1..2 : cfQualities[i] # JsUndefined =>
          \A e \in 1..Len(cfQualities[i].missingCounts) :
              cfQualities[i].missingCounts[e].v <= cfQualities[i].totalRows + 1
    /\ cfPc = "call"
    /\ confidence = JsNull

CallComputeConfidence ==
    /\ cfPc = "call"
    /\ confidence' \in computeConfidence(cfQualities)
    /\ cfPc' = "done"
    /\ UNCHANGED <<cfQualities, nonConfVars>>

SpecConf == InitConf /\ [][CallComputeConfidence]_vars

\* the reports that are considered
Considered == {i \in 1..2 : cfQualities[i] # JsUndefined}
\* the score before rounding and clamping, as a fraction
ExactScore ==
    LET pen(i) == IF i \in Considered
                  THEN LET dq == cfQualities[i]
                           mp == IF dq.totalRows * Len(dq.missingCounts) # 0
                                 THEN dq.totalRows * Len(dq.missingCounts) ELSE 1
                       IN  RatSub(Rat(0, 1),
                                  RatSub(Rat(0 - 3 * SumCounts(dq.missingCounts), 10 * mp),
                                         Rat(IF Len(dq.warnings) > 3 THEN 5 ELSE 0, 100)))
                  ELSE Rat(0, 1)
    IN  RatSub(RatSub(Rat(85, 100), pen(1)), pen(2))

\* C17: computeConfidence returns a value in [0.10, 1.00] with at most 2
\* decimals, the clamped score rounded; with no missing value and at most 3
\* warnings in every considered report, or no report, it returns 0.85.
C17_ConfidenceRange ==
    cfPc = "done" =>
        /\ confidence.k = "number" /\ confidence.n.e <= 2
        /\ ~DecLess(confidence.n, Dec(10, 2)) /\ ~DecLess(DecInt(1), confidence.n)
        /\ LET h == confidence.n.m * Pow10(2 - confidence.n.e)
               lo == RatSub(ExactScore, Rat(5, 1000))
               hi == RatSub(ExactScore, Rat(0 - 5, 1000))
           IN  /\ h > 10 => ~RatLess(hi, Rat(h, 100))
               /\ h < 100 => ~RatLess(Rat(h, 100), lo)
        /\ (\A i \in Considered : /\ SumCounts(cfQualities[i].missingCounts) = 0
                                  /\ Len(cfQualities[i].warnings) <= 3)
              => confidence = JsNum(Dec(85, 2))

\* two reports with more missing values than cells and many warnings: the
\* score is below 0.1 and 0.1 is returned
C17_Witness ==
    /\ cfPc = "done" /\ Considered = {1, 2}
    /\ RatLess(ExactScore, Rat(1, 10))
    /\ confidence = JsNum(Dec(10, 2))

\* of a cell of the board: date-like, money-like, and not normalizable to that type
DateLike(cv) ==
    /\ cellType(board.columns, cv) = Chars("date") \/ dateWord(cellTitle(cv))
    /\ ~quantityLike(cellTitle(cv))
MoneyLike(cv) ==
    /\ ~DateLike(cv)
    /\ \/ cellType(board.columns, cv) \in {Chars("numeric"), Chars("numbers")}
       \/ moneyTitle(cellTitle(cv))
Unparseable(cv) ==
    /\ ~CellBlank(cv)
    /\ \/ DateLike(cv) /\ normalizeDate(JsStr(cellRawText(board.columns, cv))) = JsNull
       \/ MoneyLike(cv) /\ normalizeCurrency(JsStr(cellRawText(board.columns, cv))).value = JsNull
\* a warning of the report that names the column
WarnedColumn(title) ==
    \E w \in 1..Len(normalized.dataQuality.warnings) :
        includes(normalized.dataQuality.warnings[w],
                 Chars("in column \"") \o title \o <<"\"">>)

\* C20: every non-blank cell that cannot be normalized to the type of its
\* column (date-like or money-like) appends a warning and leaves null in the
\* row, the board being normalized all the same; and every null of a row is
\* accounted for by a missingCounts increment or by a warning.
C20_ParseWarning ==
    nbPc = "done" =>
        /\ Len(normalized.rows) = Len(board.items)
        /\ \A i \in 1..Len(board.items) :
              /\ \A j \in 1..Len(board.items[i].column_values) :
                    LET cv == board.items[i].column_values[j] IN
                    Unparseable(cv) =>
                        /\ Get(normalized.rows[i], cellTitle(cv)) = JsNull
                        /\ WarnedColumn(cellTitle(cv))
              /\ \A e \in 1..Len(normalized.rows[i]) :
                    normalized.rows[i][e].v = JsNull =>
                        \/ \E j \in CellsFor(i, normalized.rows[i][e].k) :
                              CellBlank(board.items[i].column_values[j])
                        \/ WarnedColumn(normalized.rows[i][e].k)

\* ---- executePlan against a work-tracking service that answers or fails ----
\* the boards the service holds under the two ids
ExecDealsBoards ==
    LET cell(id, text, type, title) == CellOf(id, T(text), NoValue, type, title)
        item(id, name, cells) == [id |-> Chars(id), name |-> Chars(name), column_values |-> cells]
    IN  { [name |-> Chars("Deals"),
           columns |-> << Col("status", "Status", "status"), Col("date4", "Close Date", "date"),
                          Col("numbers", "Deal Value", "numeric"), Col("text", "Sector", "text") >>,
           items |-> << item("1", "Acme Solar Rollout",
                             << cell("status", "Won", "status", "Status"),
                                cell("date4", "2024-06-15", "date", "Close Date"),
                                cell("numbers", "$50,000", "numeric", "Deal Value"),
                                cell("text", "Mining", "text", "Sector") >>),
                        item("2", "Beta",
                             << cell("status", "", "status", "Status"),
                                cell("date4", "soon", "date", "Close Date"),
                                cell("numbers", "abc", "numeric", "Deal Value"),
                                cell("text", "Energy", "text", "Sector") >>) >>],
          [name |-> Chars("Revenue"),
           columns |-> << Col("numbers", "Sector Revenue", "numeric") >>,
           items |-> << item("1", "Acme",
                             << cell("numbers", "100", "numeric", "Sector Revenue") >>) >>],
          [name |-> Chars("Empty"), columns |-> <<>>, items |-> <<>>] }
ExecWoBoards ==
    LET cell(id, text, type, title) == CellOf(id, T(text), NoValue, type, title)
        item(id, name, cells) == [id |-> Chars(id), name |-> name, column_values |-> cells]
    IN  { [name |-> Chars("Work Orders"),
           columns |-> << Col("status", "Execution Status", "status"),
                          Col("date4", "Due Date", "date"), Col("text", "Notes", "text") >>,
           items |-> << item("1", Chars("Acme Solar ") \o EmDash \o Chars(" Phase 1"),
                             << cell("status", "Ongoing", "status", "Execution Status"),
                                cell("date4", "2024-01-01", "date", "Due Date"),
                                cell("text", "mining belt", "text", "Notes") >>),
                        item("2", Chars("Solar"),
                             << cell("status", "Completed", "status", "Execution Status"),
                                cell("date4", "", "date", "Due Date"),
                                cell("text", "", "text", "Notes") >>) >>],
          [name |-> Chars("Empty"), columns |-> <<>>, items |-> <<>>] }

\* what a fetch() for one of these boards can come to
Responses(boards) ==
    {Response(st, JsUndefined, <<>>, JsUndefined, JsNull) : st \in {401, 429, 500}}
    \cup {Response(0, T("fetch failed"), <<>>, JsUndefined, JsNull),
          Response(200, JsUndefined,
                   <<Chars("Board not accessible"), Chars("Complexity budget exhausted")>>,
                   JsUndefined, JsNull),
          Response(200, JsUndefined, <<>>, T("Internal server error"), JsNull),
          Response(200, JsUndefined, <<>>, JsUndefined, JsNull),
          Response(200, JsUndefined, <<>>, JsUndefined, [boards |-> <<>>])}
    \cup {Response(200, JsUndefined, <<>>, JsUndefined, [boards |-> <<b>>]) : b \in boards}

\* an array of strings
JsArray(xs) == [k |-> "array", s |-> [i \in 1..Len(xs) |-> Chars(xs[i])], n |-> Zero]
Plans ==
    [data_sources : {JsUndefined, JsArray(<<>>), JsArray(<<"deals">>),
                     JsArray(<<"work_orders">>), JsArray(<<"deals", "work_orders">>),
                     JsArray(<<"all">>)},
     filters : {JsUndefined} \cup [sector : {JsUndefined, T("mining")},
                                   quarter : {JsUndefined, T("Q2 2024"), T("Q1 2030")}]]
Envs ==
    [DEALS_BOARD_ID : {JsUndefined, T("123")},
     WORK_ORDERS_BOARD_ID : {JsUndefined, T("456")},
     MONDAY_API_TOKEN : {JsUndefined, T("secret")}]

InitExec ==
    /\ NonExecIdle
    /\ plan \in Plans
    /\ env \in Envs
    /\ exPc = "start"
    /\ req = JsNull /\ fetched = JsNull /\ ex = JsNull /\ outcome = JsNull

\* the call: results, sources, needDeals, needWO, dealsNorm, woNorm
ExecutePlan ==
    /\ exPc = "start"
    /\ ex' = exStart
    /\ exPc' = "deals"
    /\ UNCHANGED <<plan, env, req, fetched, outcome, nonExecVars>>

\* the head of a stage: the board id, then fetchBoard -> mondayRequest ->
\* getToken, which throws without a token
StageHead(at, need, key, fetching, skipTo) ==
    /\ exPc = at
    /\ IF ~need
       THEN /\ exPc' = skipTo
            /\ UNCHANGED <<req, ex, outcome>>
       ELSE IF ~Truthy(env[key])
       THEN /\ outcome' = errorResult(ex.results,
                                      JsStr(Chars(key) \o Chars(" not configured in .env")))
            /\ exPc' = "error"
            /\ UNCHANGED <<req, ex>>
       ELSE /\ ex' = [ex EXCEPT !.fetches = Append(@, env[key].s)]
            /\ IF ~Truthy(env.MONDAY_API_TOKEN)
               THEN /\ outcome' = TypeError("MONDAY_API_TOKEN is not configured. Set it in your .env file.")
                    /\ exPc' = "thrown"
                    /\ UNCHANGED req
               ELSE /\ req' = reqStart
                    /\ exPc' = fetching
                    /\ UNCHANGED outcome
    /\ UNCHANGED <<plan, env, fetched, nonExecVars>>

DealsStage == StageHead("deals", needDeals(plan), "DEALS_BOARD_ID", "fetchDeals", "wo")
WorkOrdersStage ==
    StageHead("wo", needWO(plan), "WORK_ORDERS_BOARD_ID", "fetchWo", "finish")

\* one attempt of mondayRequest; when it returns, fetchBoard returns
MondayAttempt ==
    /\ exPc \in {"fetchDeals", "fetchWo"}
    /\ \E res \in Responses(IF exPc = "fetchDeals" THEN ExecDealsBoards ELSE ExecWoBoards) :
          LET a == mondayStep(req, res) IN
          /\ req' = a.rq
          /\ IF a.ret = NoReply
             THEN UNCHANGED <<exPc, fetched>>
             ELSE /\ fetched' = fetchBoardReturn(ex.fetches[Len(ex.fetches)], a.ret)
                  /\ exPc' = IF exPc = "fetchDeals" THEN "gotDeals" ELSE "gotWo"
    /\ UNCHANGED <<plan, env, ex, outcome, nonExecVars>>

\* after await fetchBoard(boardId) of the deals stage
DealsFetched ==
    /\ exPc = "gotDeals"
    /\ IF Truthy(fetched.error)
       THEN /\ outcome' = errorResult(ex.results, fetched.error)
            /\ exPc' = "error"
            /\ UNCHANGED ex
       ELSE /\ ex' = dealsStage(ex, normalizeBoard(fetched.board))
            /\ exPc' = "wo"
            /\ UNCHANGED outcome
    /\ UNCHANGED <<plan, env, req, fetched, nonExecVars>>

\* after await fetchBoard(boardId) of the work-orders stage
WorkOrdersFetched ==
    /\ exPc = "gotWo"
    /\ IF Truthy(fetched.error)
       THEN /\ outcome' = errorResult(ex.results, fetched.error)
            /\ exPc' = "error"
            /\ UNCHANGED ex
       ELSE /\ ex' = workOrdersStage(ex, normalizeBoard(fetched.board), LinkNow)
            /\ exPc' = "finish"
            /\ UNCHANGED outcome
    /\ UNCHANGED <<plan, env, req, fetched, nonExecVars>>

\* results.confidence = computeConfidence(results); return results
FinishReturn(results) ==
    /\ ex' = [ex EXCEPT !.results = results]
    /\ \E c \in computeConfidence(qualitiesOf(results)) :
          outcome' = [metrics |-> results.metrics, dataQuality |-> results.dataQuality,
                      tables |-> results.tables, confidence |-> c]
    /\ exPc' = "done"
\* cross is what crossBoardAnalysis came to, undefined when it was not called
FinishWith(cross) ==
    IF cross = JsUndefined
    THEN FinishReturn(applyFilters(plan, ex))
    ELSE IF ~("linkedWorkOrders" \in DOMAIN cross)
    THEN /\ outcome' = cross
         /\ exPc' = "thrown"
         /\ UNCHANGED ex
    ELSE FinishReturn(applyFilters(plan, [ex EXCEPT !.results.metrics =
                                                        Put(@, Chars("crossBoard"), cross)]))
\* the cross-board analysis, the filters, the confidence and the return
Finish ==
    /\ exPc = "finish"
    /\ FinishWith(IF ex.dealsNorm # JsNull /\ ex.woNorm # JsNull
                  THEN crossBoardAnalysis(ex.dealsNorm.rows, ex.woNorm.rows,
                                          Get(ex.results.metrics, Chars("deals")),
                                          Get(ex.results.metrics, Chars("workOrders")))
                  ELSE JsUndefined)
    /\ UNCHANGED <<plan, env, req, fetched, nonExecVars>>

NextExec ==
    \/ ExecutePlan \/ DealsStage \/ WorkOrdersStage \/ MondayAttempt
    \/ DealsFetched \/ WorkOrdersFetched \/ Finish
SpecExec == InitExec /\ [][NextExec]_vars

\* C18: a fetch failure -- the board id of a requested source absent, or
\* fetchBoard resolving to a non-null error -- ends the plan in the result
\* { error } with the message as it was, and with no metrics, dataQuality,
\* tables or confidence; also when the work orders fail after the deals were
\* fetched, normalized and aggregated.
C18_FetchFailureIsError ==
    [][ /\ (exPc \in {"gotDeals", "gotWo"} /\ Truthy(fetched.error))
              => /\ exPc' = "error"
                 /\ outcome' = [error |-> fetched.error]
        /\ (exPc = "deals" /\ needDeals(plan) /\ ~Truthy(env.DEALS_BOARD_ID))
              => /\ exPc' = "error"
                 /\ outcome' = [error |-> T("DEALS_BOARD_ID not configured in .env")]
        /\ (exPc = "wo" /\ needWO(plan) /\ ~Truthy(env.WORK_ORDERS_BOARD_ID))
              => /\ exPc' = "error"
                 /\ outcome' = [error |-> T("WORK_ORDERS_BOARD_ID not configured in .env")]
      ]_vars

\* the work orders failed after the deals metrics were in results
C18_Witness ==
    /\ exPc = "error"
    /\ Len(ex.fetches) = 2
    /\ HasKey(ex.results.metrics, Chars("deals"))
    /\ Truthy(fetched.error)
    /\ outcome = [error |-> fetched.error]

\* C19: no exception escapes executePlan: whatever the plan, the configuration
\* and the answers of the service, the call never ends by throwing.
C19_NoExceptionEscapes == exPc # "thrown"

\* an input DD-MM-YYYY: two digits, a dash, two digits, a dash, four digits,
\* the day in 1..31 and the month in 1..12
DayFirstInput(s) ==
    /\ Len(s) = 10 /\ s[3] = "-" /\ s[6] = "-"
    /\ AllDigits(SubSeq(s, 1, 2)) /\ AllDigits(SubSeq(s, 4, 5)) /\ AllDigits(SubSeq(s, 7, 10))
    /\ DigitsToInt(SubSeq(s, 1, 2)) \in 1..31
    /\ DigitsToInt(SubSeq(s, 4, 5)) \in 1..12

\* C21: normalizeDate accepts day-first dates DD-MM-YYYY (day 1..31, month
\* 1..12, as 15-03-2024) and returns the YYYY-MM-DD string of that day.
C21_DayFirstAccepted ==
    (fn = "normalizeDate" /\ pc = "returned" /\ ~IsBlankRaw(raw) /\ DayFirstInput(rawText)) =>
        result = JsStr(SubSeq(rawText, 7, 10) \o <<"-">> \o SubSeq(rawText, 4, 5)
                       \o <<"-">> \o SubSeq(rawText, 1, 2))

startsWith(s, p) == Len(s) >= Len(p) /\ SubSeq(s, 1, Len(p)) = p
endsWith(s, p) == Len(s) >= Len(p) /\ SubSeq(s, Len(s) - Len(p) + 1, Len(s)) = p
MixedPrefix == Chars("Mixed currencies detected: ")
\* the mixed-currencies warnings of the report
MixedWarnings ==
    {w \in 1..Len(normalized.dataQuality.warnings) :
        startsWith(normalized.dataQuality.warnings[w], MixedPrefix)}
\* the tags normalizeCurrency yields for the non-blank money-like cells of the board
TagsObserved ==
    UNION {{normalizeCurrency(JsStr(cellRawText(board.columns,
                                                board.items[i].column_values[j]))).currency :
              j \in {c \in 1..Len(board.items[i].column_values) :
                        /\ ~CellBlank(board.items[i].column_values[c])
                        /\ MoneyLike(board.items[i].column_values[c])}} :
           i \in 1..Len(board.items)} \ {JsNull}
\* the non-null values under the "<title>_currency" keys of the returned rows
RowTags ==
    UNION {{normalized.rows[i][e].v :
              e \in {x \in 1..Len(normalized.rows[i]) :
                        endsWith(normalized.rows[i][x].k, Chars("_currency"))}} :
           i \in 1..Len(normalized.rows)} \ {JsNull}

\* C25: after normalizeBoard the report holds a mixed-currencies warning exactly
\* when more than one distinct non-null currency tag was observed on the board,
\* it holds at most one, that warning names every tag of currencyTypes, and
\* currencyTypes holds, once each, exactly the non-null tags that the money
\* cells wrote to the "_currency" keys of the rows, every tag still under such
\* a key being one of them.
C25_MixedCurrencies ==
    nbPc = "done" =>
        LET dq == normalized.dataQuality IN
        /\ (MixedWarnings # {}) <=> (Cardinality(TagsObserved) > 1)
        /\ Cardinality(MixedWarnings) <= 1
        /\ \A w \in MixedWarnings :
              /\ dq.warnings[w] = MixedPrefix \o joinComma(dq.currencyTypes)
              /\ \A t \in 1..Len(dq.currencyTypes) :
                    includes(dq.warnings[w], dq.currencyTypes[t])
        /\ {JsStr(dq.currencyTypes[t]) : t \in 1..Len(dq.currencyTypes)} = TagsObserved
        /\ Len(dq.currencyTypes) = Cardinality(TagsObserved)
        /\ RowTags \subseteq TagsObserved
\* a rupee deal and a dollar deal: two tags and the warning that names both
C25_Witness ==
    /\ nbPc = "done"
    /\ normalized.dataQuality.currencyTypes = <<Chars("INR"), Chars("USD")>>
    /\ MixedWarnings # {}

\* C26: every non-blank cell is normalized by exactly one of normalizeDate (the
\* column is date-like and its title is not quantity-like), else
\* normalizeCurrency (the column is money-like), else normalizeText; and the
\* "<title>_currency" key is written exactly when normalizeCurrency was applied.
C26_OneNormalizer ==
    [][(nbPc = "cells" /\ cellIdx' = cellIdx + 1) =>
          LET cv == currentItem.column_values[cellIdx']
              title == cellTitle(cv)
              rawTxt == JsStr(cellRawText(board.columns, cv))
          IN  ~CellBlank(cv) =>
                nb'.row =
                    IF DateLike(cv) THEN Put(nb.row, title, normalizeDate(rawTxt))
                    ELSE IF MoneyLike(cv)
                    THEN Put(Put(nb.row, title, normalizeCurrency(rawTxt).value),
                             title \o Chars("_currency"), normalizeCurrency(rawTxt).currency)
                    ELSE Put(nb.row, title, normalizeText(rawTxt))]_vars
\* an item with a date-typed "Invoice Date" (text), a "Billed Date" (money) and
\* a text-typed "Due date" (date by its title)
C26_Witness ==
    /\ nbPc = "cells" /\ cellIdx = 3
    /\ currentItem.name = Chars("Invoiced")
    /\ Get(nb.row, Chars("Invoice Date")) = T("2024-06-15")
    /\ ~HasKey(nb.row, Chars("Invoice Date_currency"))
    /\ Get(nb.row, Chars("Billed Date_currency")) = T("USD")
    /\ Get(nb.row, Chars("Due date")) = T("2024-07-01")
    /\ ~HasKey(nb.row, Chars("Due date_currency"))

\* ---- fetchBoard against a service that answers, refuses, or fails ----
FetchBoards ==
    {[id |-> Chars("123"), name |-> Chars("Deals"), columns |-> <<>>, items |-> <<>>]}
\* what fetch() or res.json() throws
Thrown == {T("fetch failed"), T("Unexpected end of JSON input")}
FetchResponses ==
    Responses(FetchBoards)
    \cup {Response(200, T("Unexpected end of JSON input"), <<>>, JsUndefined, JsNull)}

InitFetch ==
    /\ NonFetchIdle
    /\ fbId \in {Chars("123"), Chars("456")}
    /\ fbReq = reqStart /\ fbSeen = <<>> /\ fbPc = "attempt"
    /\ fbReply = JsNull /\ fbResult = JsNull

\* one pass of the loop of mondayRequest: fetch(), and what follows from it
FetchAttempt ==
    /\ fbPc = "attempt"
    /\ \E res \in FetchResponses :
          LET a == mondayStep(fbReq, res) IN
          /\ fbReq' = a.rq
          /\ fbSeen' = Append(fbSeen, [status |-> res.status, thrown |-> res.thrown])
          /\ IF a.ret = NoReply
             THEN UNCHANGED <<fbPc, fbReply>>
             ELSE fbReply' = a.ret /\ fbPc' = "replied"
    /\ UNCHANGED <<fbId, fbResult, nonFetchVars>>

\* fetchBoard after await mondayRequest(...)
FetchBoardReturn ==
    /\ fbPc = "replied"
    /\ fbResult' = fetchBoardReturn(fbId, fbReply)
    /\ fbPc' = "returned"
    /\ UNCHANGED <<fbId, fbReq, fbSeen, fbReply, nonFetchVars>>

NextFetch == FetchAttempt \/ FetchBoardReturn
SpecFetch == InitFetch /\ [][NextFetch]_vars

\* the four failures of a call of fetchBoard
WasThrown(i) == fbSeen[i].thrown # JsUndefined
Was429(i) == ~WasThrown(i) /\ fbSeen[i].status = 429
Unauthorized ==
    /\ fbSeen # <<>> /\ ~WasThrown(Len(fbSeen)) /\ fbSeen[Len(fbSeen)].status = 401
RateLimited == Len(fbSeen) = MAX_RETRIES /\ \A i \in 1..Len(fbSeen) : Was429(i)
TransportFailure == Len(fbSeen) = MAX_RETRIES /\ \A i \in 1..Len(fbSeen) : WasThrown(i)
NotFound ==
    /\ fbReply.error = JsNull
    /\ fbReply.data = JsNull \/ fbReply.data.boards = <<>>
\* the error strings fetchBoard has for each of them, over the board ids and
\* the exceptions drawn
UnauthorizedErrors ==
    {T("Invalid Monday.com API token. Please verify your credentials.")}
RateLimitedErrors == {mondayExhausted(reqStart).error}
TransportErrors == {mondayExhausted([reqStart EXCEPT !.lastError = t]).error : t \in Thrown}
NotFoundErrors ==
    {fetchBoardReturn(id, Reply(JsNull, JsNull)).error : id \in {Chars("123"), Chars("456")}}
Disjoint(A, B) == A \cap B = {}

\* C22: for unauthorized access (401), rate limiting through all retries (429 on
\* every attempt), transport failure (every attempt throws) and a board empty or
\* not found, fetchBoard returns { error: non-null, board: null }, and the error
\* strings of the four kinds are pairwise distinct.
C22_DistinctErrors ==
    /\ Disjoint(UnauthorizedErrors, RateLimitedErrors)
    /\ Disjoint(UnauthorizedErrors, TransportErrors)
    /\ Disjoint(UnauthorizedErrors, NotFoundErrors)
    /\ Disjoint(RateLimitedErrors, TransportErrors)
    /\ Disjoint(RateLimitedErrors, NotFoundErrors)
    /\ Disjoint(TransportErrors, NotFoundErrors)
    /\ fbPc = "returned" =>
          /\ Unauthorized => fbResult.error \in UnauthorizedErrors
          /\ RateLimited => fbResult.error \in RateLimitedErrors
          /\ TransportFailure => fbResult.error \in TransportErrors
          /\ NotFound => fbResult.error \in NotFoundErrors
          /\ (Unauthorized \/ RateLimited \/ TransportFailure \/ NotFound) =>
                /\ fbResult.error.k = "string" /\ fbResult.error.s # <<>>
                /\ fbResult.board = JsNull
\* three answers 429: the error of the exhausted loop, with no exception to name
C22_Witness ==
    /\ fbPc = "returned" /\ RateLimited
    /\ fbResult = [error |-> T("Network failure after 3 retries: undefined"),
                   board |-> JsNull]

\* C29: a call of mondayRequest makes at most 3 attempts; every attempt but the
\* last answered 429 or threw, and attempt k + 1 follows a wait of
\* 1000 * 2^(k - 1) ms; 401, another non-OK status and errors in the body are
\* returned at once as { error, data: null }; after a third failed attempt
\* { error, data: null } is returned.
C29_BoundedRetries ==
    /\ Len(fbSeen) <= 3
    /\ fbPc = "attempt" => Len(fbSeen) < 3
    /\ \A i \in 1..Len(fbSeen) :
          (i < Len(fbSeen) \/ fbPc = "attempt") => (Was429(i) \/ WasThrown(i))
    /\ \A i \in 2..Len(fbSeen) :
          /\ Len(fbReq.waits) >= i - 1
          /\ fbReq.waits[i - 1] = 1000 * Pow2(i - 2)
    /\ (fbPc # "attempt" /\ ~Was429(Len(fbSeen)) /\ ~WasThrown(Len(fbSeen))) =>
          \/ fbReply.error = JsNull /\ fbSeen[Len(fbSeen)].status \in 200..299
          \/ fbReply.error.k = "string" /\ fbReply.data = JsNull
    /\ (fbPc # "attempt" /\ ~Was429(Len(fbSeen)) /\ ~WasThrown(Len(fbSeen))
           /\ fbSeen[Len(fbSeen)].status \notin 200..299) =>
          fbReply.error.k = "string" /\ fbReply.data = JsNull
    /\ (fbPc # "attempt" /\ (Was429(Len(fbSeen)) \/ WasThrown(Len(fbSeen)))) =>
          /\ Len(fbSeen) = 3
          /\ fbReply.error.k = "string" /\ fbReply.data = JsNull
\* an exception, a 429 and an exception: waits of 1000 and 2000 ms, then the
\* error of the exhausted loop
C29_Witness ==
    /\ fbPc = "replied" /\ Len(fbSeen) = 3
    /\ WasThrown(1) /\ Was429(2) /\ WasThrown(3)
    /\ fbReq.waits = <<1000, 2000>>
    /\ fbReply = Reply(T("Network failure after 3 retries: fetch failed"), JsNull)

\* the keys of an object
KeysOf(obj) == {obj[i].k : i \in 1..Len(obj)}
\* the sources the plan asks for, as the board ids handed to fetchBoard
RequestedIds ==
    (IF needDeals(plan) THEN <<env.DEALS_BOARD_ID>> ELSE <<>>)
    \o (IF needWO(plan) THEN <<env.WORK_ORDERS_BOARD_ID>> ELSE <<>>)
\* fetchBoard was called at most once per requested source, deals first
FetchedOnce ==
    ex # JsNull =>
        /\ Len(ex.fetches) <= Len(RequestedIds)
        /\ \A i \in 1..Len(ex.fetches) : JsStr(ex.fetches[i]) = RequestedIds[i]

\* C23: fetchBoard is called at most once per requested source and never once
\* filtering has started; the filters leave metrics.deals, metrics.workOrders,
\* metrics.crossBoard, dataQuality and tables.deals as they were, adding only
\* filteredDeals (metrics and tables) and quarterFocus.
C23_FilterReadsOnly ==
    [][/\ FetchedOnce /\ FetchedOnce'
       /\ (exPc = "finish" /\ exPc' = "done") =>
             LET before == ex.results
                 after == ex'.results
                 f == plan.filters
                 bySector == f # JsUndefined /\ Truthy(f.sector) /\ ex.dealsNorm # JsNull
                 byQuarter == f # JsUndefined /\ Truthy(f.quarter) /\ ex.dealsNorm # JsNull
             IN  /\ ex'.fetches = ex.fetches
                 /\ req' = req /\ fetched' = fetched
                 /\ \A k \in KeysOf(before.metrics) :
                       Get(after.metrics, k) = Get(before.metrics, k)
                 /\ \A k \in KeysOf(before.tables) :
                       Get(after.tables, k) = Get(before.tables, k)
                 /\ after.dataQuality = before.dataQuality
                 /\ KeysOf(after.metrics) \ KeysOf(before.metrics) =
                       (IF ex.dealsNorm # JsNull /\ ex.woNorm # JsNull
                        THEN {Chars("crossBoard")} ELSE {})
                       \cup (IF bySector THEN {Chars("filteredDeals")} ELSE {})
                       \cup (IF byQuarter THEN {Chars("quarterFocus")} ELSE {})
                 /\ KeysOf(after.tables) \ KeysOf(before.tables) =
                       (IF bySector THEN {Chars("filteredDeals")} ELSE {})
                 /\ outcome'.metrics = after.metrics
                 /\ outcome'.tables = after.tables
                 /\ outcome'.dataQuality = after.dataQuality]_vars
\* both boards fetched once each, then a sector and a quarter filter applied
C23_Witness ==
    /\ exPc = "done" /\ Len(ex.fetches) = 2
    /\ plan.filters # JsUndefined /\ Truthy(plan.filters.sector) /\ Truthy(plan.filters.quarter)
    /\ HasKey(outcome.metrics, Chars("filteredDeals"))
    /\ HasKey(outcome.metrics, Chars("quarterFocus"))
    /\ HasKey(outcome.metrics, Chars("deals"))
    /\ Get(outcome.metrics, Chars("filteredDeals")) # Get(outcome.metrics, Chars("deals"))

\* C24: the stages come in order: every requested fetch (deals, then work
\* orders) has completed before any normalization starts, normalization
\* precedes aggregation, cross-analysis runs only with both sources present,
\* filtering comes after cross-analysis, and scoring is the last step before
\* the return.
C24_StageOrder ==
    ex # JsNull =>
        LET metrics == ex.results.metrics IN
        /\ (needWO(plan) /\ exPc \in {"deals", "fetchDeals", "gotDeals", "wo", "fetchWo", "gotWo"})
               => ex.dealsNorm = JsNull /\ ex.woNorm = JsNull
        /\ HasKey(metrics, Chars("deals")) => ex.dealsNorm # JsNull
        /\ HasKey(metrics, Chars("workOrders")) => ex.woNorm # JsNull
        /\ HasKey(metrics, Chars("crossBoard")) => ex.dealsNorm # JsNull /\ ex.woNorm # JsNull
        /\ (HasKey(metrics, Chars("filteredDeals")) \/ HasKey(metrics, Chars("quarterFocus")))
               => /\ exPc = "done"
                  /\ (ex.dealsNorm # JsNull /\ ex.woNorm # JsNull)
                        => HasKey(metrics, Chars("crossBoard"))
        /\ (outcome # JsNull /\ "confidence" \in DOMAIN outcome) => exPc = "done"

\* ---- crossBoardAnalysis over pipelines of many deals ----
MaxPipeline == 35
\* the value cells: none, zero, equal amounts, or one large deal among small ones
FragmentValues == {JsNull, JsNum(Zero), JsNum(DecInt(100)), JsNum(Dec(5, 1)),
                   JsNum(DecInt(1000000))}
FragmentWoLists ==
    {[i \in 1..Len(l) |-> linkWoRow(l[i], i)] : l \in ListsUpTo(LinkWos, 1)}
valueOf(r) == Get(r, Chars("Deal Value"))

\* executePlan with both boards fetched: computeDealsMetrics over the deals
\* rows, one pass of its loop at a time (cb holds its locals), then
\* crossBoardAnalysis with the record it returns
InitFragment ==
    /\ NonCrossIdle
    /\ cbDeals = <<>>
    /\ cbWos \in FragmentWoLists
    /\ cb = dmStart
    /\ cbPc = "deals"
    /\ crossBoard = JsNull

\* for (const r of rows) of computeDealsMetrics
FragmentDeal ==
    /\ cbPc = "deals"
    /\ Len(cbDeals) < MaxPipeline
    /\ \E v \in FragmentValues :
          /\ cbDeals # <<>> =>
                v = (IF valueOf(cbDeals[1]) = JsNum(DecInt(1000000)) THEN JsNum(DecInt(1))
                     ELSE valueOf(cbDeals[1]))
          /\ LET r == linkDealRow([name |-> Chars("Lot"), sector |-> JsNull, value |-> v],
                                  Len(cbDeals) + 1, "Sector")
             IN  /\ cbDeals' = Append(cbDeals, r)
                 /\ cb' = dealsLoop(cbDeals', r, FALSE, cb)
    /\ UNCHANGED <<cbWos, cbPc, crossBoard, nonCrossVars>>

\* results.metrics.crossBoard = crossBoardAnalysis(dealsNorm.rows, woNorm.rows,
\* results.metrics.deals, results.metrics.workOrders)
FragmentAnalysis ==
    /\ cbPc = "deals"
    /\ crossBoard' = crossBoardAnalysis(cbDeals, cbWos, dealsReturn(cb),
                                        computeWorkOrdersMetrics(cbWos, LinkNow))
    /\ cbPc' = "done"
    /\ UNCHANGED <<cbDeals, cbWos, cb, nonCrossVars>>

NextFragment == FragmentDeal \/ FragmentAnalysis
SpecFragment == InitFragment /\ [][NextFragment]_vars

FragmentationText ==
    Chars("Pipeline fragmentation: Many small deals ") \o EmDash
    \o Chars(" consider focusing sales effort on fewer, larger opportunities.")
FragmentationEmitted ==
    \E i \in 1..Len(crossBoard.insights) : crossBoard.insights[i] = FragmentationText

\* C27: the pipeline-fragmentation insight of crossBoardAnalysis is emitted
\* exactly when totalPipeline > 0 and dealCount >= 34, and never for a pipeline
\* of 21 to 33 deals.
C27_FragmentationFrom34 ==
    CrossReturned =>
        LET dMetrics == dealsReturn(cb) IN
        /\ dMetrics.dealCount = Len(cbDeals)
        /\ FragmentationEmitted <=>
              (DecLess(Zero, dMetrics.totalPipeline) /\ dMetrics.dealCount >= 34)
        /\ dMetrics.dealCount \in 21..33 => ~FragmentationEmitted
\* 34 deals of 100 each: emitted
C27_Witness ==
    /\ CrossReturned /\ Len(cbDeals) = 34 /\ FragmentationEmitted
    /\ dealsReturn(cb).totalPipeline = DecInt(3400)

\* ---- computeConfidence on two reports, the second missing no less ----
\* every column's missing count of b is at least its count of a, an absent
\* column counting as 0
NoLessMissing(a, b) ==
    \A e \in 1..Len(a.missingCounts) :
        a.missingCounts[e].v <= CountOf(b.missingCounts, a.missingCounts[e].k)
InitMonotone ==
    /\ NonConfIdle
    /\ cfQualities \in {<<a, b>> : a \in Reports, b \in Reports}
    /\ cfQualities[1].totalRows = cfQualities[2].totalRows
    /\ cfQualities[1].warnings = cfQualities[2].warnings
    /\ NoLessMissing(cfQualities[1], cfQualities[2])
    /\ \A i \in 1..2 : \A e \in 1..Len(cfQualities[i].missingCounts) :
          cfQualities[i].missingCounts[e].v <= cfQualities[i].totalRows + 1
    /\ cfPc = "first"
    /\ confidence = <<>>

\* computeConfidence({ dataQuality: { deals: report } }) for the first report,
\* then for the second
CallOnFirst ==
    /\ cfPc = "first"
    /\ \E c \in computeConfidence(<<cfQualities[1], JsUndefined>>) : confidence' = <<c>>
    /\ cfPc' = "second"
    /\ UNCHANGED <<cfQualities, nonConfVars>>
CallOnSecond ==
    /\ cfPc = "second"
    /\ \E c \in computeConfidence(<<cfQualities[2], JsUndefined>>) :
          confidence' = Append(confidence, c)
    /\ cfPc' = "both"
    /\ UNCHANGED <<cfQualities, nonConfVars>>
NextMonotone == CallOnFirst \/ CallOnSecond
SpecMonotone == InitMonotone /\ [][NextMonotone]_vars

\* C28: for two reports with the same totalRows and warnings, the second with
\* every column's missing count at least that of the first, the confidence for
\* the second is not higher than for the first; and no confidence exceeds 0.85.
C28_MonotoneInMissing ==
    /\ \A i \in 1..Len(confidence) : ~DecLess(Dec(85, 2), confidence[i].n)
    /\ cfPc = "both" => ~DecLess(confidence[1].n, confidence[2].n)

\* --------------------------------------------------------------------------
\* router.post("/chat") and the session store
\* --------------------------------------------------------------------------
MAX_HISTORY == 10
MaxRequests == 2

\* getSession(id), on the Map: the session of the id, made if there is none
getSession(map, id) ==
    IF HasKey(map, id) THEN map ELSE Put(map, id, [history |-> <<>>])
\* history.slice(-n)
sliceLast(history, n) ==
    IF Len(history) > n THEN SubSeq(history, Len(history) - n + 1, Len(history)) ELSE history
Turn(role, content) == [role |-> role, content |-> content]
\* the two pushes without the cut to the last MAX_HISTORY * 2 entries
storeTurnUncut(history, message, reply) ==
    history \o <<Turn("user", trim(message)), Turn("assistant", reply)>>
\* the two pushes, then the cut to the last MAX_HISTORY * 2 entries
storeTurn(history, message, reply) ==
    LET pushed == history \o <<Turn("user", trim(message)), Turn("assistant", reply)>>
    IN  IF Len(pushed) > MAX_HISTORY * 2 THEN sliceLast(pushed, MAX_HISTORY * 2) ELSE pushed
\* session.history = ... for the session of the id
stored(map, id, message, reply) ==
    Put(map, id, [history |-> storeTurn(Get(map, id).history, message, reply)])
\* !message || typeof message !== "string" || !message.trim()
messageMissing(message) ==
    ~Truthy(message) \/ message.k # "string" \/ trim(message.s) = <<>>
\* a handler between two awaits, and one that has responded
Handler(at, id, message) == [pc |-> at, sessionId |-> id, message |-> message]
Responded(h, status, type) ==
    [pc |-> "done", sessionId |-> h.sessionId, message |-> h.message,
     status |-> status, type |-> type]

\* req.body: message and sessionId
ChatMessages == {JsUndefined, T("   "), JsNum(DecInt(7)), T(" revenue? ")}
ChatSessionIds == {JsUndefined, T("default"), T("s2")}
\* plan.clarifying_questions of the plans interpretQuery resolves to
ChatQuestions == {<<>>, <<Chars("Which sector?"), Chars("Which quarter?")>>}
Summary == Chars("Pipeline is healthy.")
\* n earlier turns of a session
RECURSIVE EarlierTurns(_)
EarlierTurns(n) ==
    IF n = 0 THEN <<>>
    ELSE storeTurn(EarlierTurns(n - 1), Chars("status?"), Summary)

InitChat ==
    /\ NonChatIdle
    /\ \/ sessions = <<>>
       \/ \E n \in {MAX_HISTORY - 1, MAX_HISTORY} :
             sessions = <<[k |-> Chars("default"), v |-> [history |-> EarlierTurns(n)]]>>
    /\ handlers = <<>>

\* a request arrives: the check of the message, then getSession(sessionId) and
\* the call of interpretQuery
PostChat ==
    /\ Len(handlers) < MaxRequests
    /\ \E message \in ChatMessages, sid \in ChatSessionIds :
          LET id == IF sid = JsUndefined THEN Chars("default") ELSE sid.s IN
          IF messageMissing(message)
          THEN /\ handlers' = Append(handlers, Responded(Handler("start", id, message),
                                                         400, "none"))
               /\ UNCHANGED sessions
          ELSE /\ sessions' = getSession(sessions, id)
               /\ handlers' = Append(handlers, Handler("interpret", id, message.s))
    /\ UNCHANGED nonChatVars

\* interpretQuery resolved: with questions, the turn is stored and the
\* clarification sent; without, executePlan is called
Interpreted(h) ==
    /\ handlers[h].pc = "interpret"
    /\ \E questions \in ChatQuestions :
          IF Len(questions) > 0
          THEN /\ sessions' = stored(sessions, handlers[h].sessionId, handlers[h].message,
                                     Chars("Clarifying questions: ") \o joinSemi(questions))
               /\ handlers' = [handlers EXCEPT ![h] = Responded(@, 200, "clarification")]
          ELSE /\ handlers' = [handlers EXCEPT ![h].pc = "execute"]
               /\ UNCHANGED sessions
    /\ UNCHANGED nonChatVars

\* executePlan settled: with { error }, with results, or by throwing
Executed(h) ==
    /\ handlers[h].pc = "execute"
    /\ \/ handlers' = [handlers EXCEPT ![h] = Responded(@, 200, "error")]
       \/ handlers' = [handlers EXCEPT ![h] = Responded(@, 500, "error")]
       \/ handlers' = [handlers EXCEPT ![h].pc = "narrate"]
    /\ UNCHANGED <<sessions, nonChatVars>>

\* generateNarrative resolved: the turn is stored and the insight sent
Narrated(h) ==
    /\ handlers[h].pc = "narrate"
    /\ sessions' = stored(sessions, handlers[h].sessionId, handlers[h].message, Summary)
    /\ handlers' = [handlers EXCEPT ![h] = Responded(@, 200, "insight")]
    /\ UNCHANGED nonChatVars

NextChat ==
    \/ PostChat
    \/ \E h \in 1..Len(handlers) : Interpreted(h)
    \/ \E h \in 1..Len(handlers) : Executed(h)
    \/ \E h \in 1..Len(handlers) : Narrated(h)
SpecChat == InitChat /\ [][NextChat]_vars

\* user, assistant, user, assistant, ...
Alternates(history) ==
    \A i \in 1..Len(history) :
        history[i].role = (IF i % 2 = 1 THEN "user" ELSE "assistant")
HistoryOf(map, id) == IF HasKey(map, id) THEN Get(map, id).history ELSE <<>>
\* handler h responds in this step
Finishes(h) == handlers[h].pc # "done" /\ handlers'[h].pc = "done"

\* C30: under any interleaving of /chat requests on a session, every change of
\* its history is the extension, by one handler that responds with a
\* clarification or an insight, by the adjacent pair (user: its trimmed message,
\* assistant), cut to the last 20 entries; the history alternates user,
\* assistant from a user entry and never holds more than 20 entries; and a
\* request that ends in an execution error or an exception leaves it unchanged.
C30_HistoryPairs ==
    [][/\ \A e \in 1..Len(sessions') :
             LET id == sessions'[e].k
                 old == HistoryOf(sessions, id)
                 new == HistoryOf(sessions', id)
             IN  /\ Alternates(new) /\ Len(new) <= 20
                 /\ new # old =>
                       \E h \in 1..Len(handlers) :
                           /\ Finishes(h)
                           /\ handlers[h].sessionId = id
                           /\ handlers'[h].type \in {"clarification", "insight"}
                           /\ Len(new) >= 2
                           /\ new[Len(new) - 1] = Turn("user", trim(handlers[h].message))
                           /\ new[Len(new)].role = "assistant"
                           /\ new = sliceLast(old \o SubSeq(new, Len(new) - 1, Len(new)), 20)
       /\ \A e \in 1..Len(sessions) : HasKey(sessions', sessions[e].k)
       /\ \A h \in 1..Len(handlers) :
             (Finishes(h) /\ handlers'[h].type = "error") => sessions' = sessions]_vars
\* a full history, a request still waiting for its narrative, and a later
\* request on the same session that has stored its clarification
C30_Witness ==
    /\ Len(handlers) = 2
    /\ handlers[1].pc = "narrate" /\ handlers[1].sessionId = Chars("default")
    /\ handlers[2].pc = "done" /\ handlers[2].sessionId = Chars("default")
    /\ handlers[2].type = "clarification"
    /\ Len(HistoryOf(sessions, Chars("default"))) = 20
    /\ HistoryOf(sessions, Chars("default"))[20].content
          = Chars("Clarifying questions: Which sector?; Which quarter?")
====
